---- MODULE Spec2Model ----
(***************************************************************************)
(* CrabHunter launcher (single file edition): the crawl control plane.     *)
(* The state is the launcher's `state` object, the scheduler's queue and   *)
(* the three files the launcher writes under the output root               *)
(* (manifest.json, checkpoint.json, the artifact files).                   *)
(***************************************************************************)
EXTENDS Integers, Sequences, FiniteSets, TLC

\* null / undefined of a record-valued field.
Null == [null |-> TRUE]

(***************************************************************************)
(* Bounds of the model and configuration values of the modelled run.       *)
(***************************************************************************)
MaxRestarts == 1
\* Events of the environment over all runs: a fetch that fails, a disk write
\* that rejects, the 60 s flush timer of maybeFlush running out, an
\* external termination.
MaxEvents == 2

pages_max == 2
js_max == 2
api_max == 2
depth_max == 2
family_max_samples == 1

\* maybeFlush: flush when 50 items were handled since the last flush.
FLUSH_EVERY == 50
\* validateConfig: heuristics.html_similarity_drop, in hundredths.
html_similarity_drop_pct == 92
\* simhash width.
SIMHASH_BITS == 64

(***************************************************************************)
(* Strings.  Where the code looks inside a string (a regular expression    *)
(* test, a path name) the string is the sequence of its characters.        *)
(***************************************************************************)
Chars(s) ==
  CASE s = "" -> <<>>
    [] s = "." -> <<".">>
    [] s = ".." -> <<".", ".">>
    [] s = "1" -> <<"1">>
    [] s = "2" -> <<"2">>
    [] s = "3" -> <<"3">>
    [] s = "a" -> <<"a">>
    [] s = "b" -> <<"b">>
    [] s = "c" -> <<"c">>
    [] s = "x" -> <<"x">>
    [] s = "Foo" -> <<"F", "o", "o">>
    [] s = "admin" -> <<"a", "d", "m", "i", "n">>
    [] s = "Admin" -> <<"A", "d", "m", "i", "n">>
    [] s = "users" -> <<"u", "s", "e", "r", "s">>
    [] s = "about-us" -> <<"a", "b", "o", "u", "t", "-", "u", "s">>
    [] s = "api" -> <<"a", "p", "i">>
    [] s = "v1" -> <<"v", "1">>
    [] s = "login" -> <<"l", "o", "g", "i", "n">>
    [] s = "store" -> <<"s", "t", "o", "r", "e">>
    [] s = "item" -> <<"i", "t", "e", "m">>
    [] s = "mirror" -> <<"m", "i", "r", "r", "o", "r">>
    [] s = "app.js" -> <<"a", "p", "p", ".", "j", "s">>
    [] s = "logo.png" -> <<"l", "o", "g", "o", ".", "p", "n", "g">>
    [] s = "pub" -> <<"p", "u", "b">>
    [] s = "gclid" -> <<"g", "c", "l", "i", "d">>
    [] s = "fbclid" -> <<"f", "b", "c", "l", "i", "d">>
    [] s = "utm" -> <<"u", "t", "m">>
    [] s = "utm_" -> <<"u", "t", "m", "_">>
    [] s = "utm__" -> <<"u", "t", "m", "_", "_">>
    [] s = "utm_source" -> <<"u", "t", "m", "_", "s", "o", "u", "r", "c", "e">>
    [] s = "UTM_source" -> <<"U", "T", "M", "_", "s", "o", "u", "r", "c", "e">>
    [] s = "utm_*" -> <<"u", "t", "m", "_", "*">>
    [] s = "*id" -> <<"*", "i", "d">>
    [] s = "/admin" -> <<"/", "a", "d", "m", "i", "n">>
    [] s = "/admin/*" -> <<"/", "a", "d", "m", "i", "n", "/", "*">>
    [] s = "/app.js" -> <<"/", "a", "p", "p", ".", "j", "s">>
    [] s = "/api" -> <<"/", "a", "p", "i">>
    [] s = "/graphql" -> <<"/", "g", "r", "a", "p", "h", "q", "l">>
    [] s = "/auth" -> <<"/", "a", "u", "t", "h">>
    [] s = "/config" -> <<"/", "c", "o", "n", "f", "i", "g">>
    [] s = "/v1" -> <<"/", "v", "1">>
    [] s = "/v2" -> <<"/", "v", "2">>
    [] s = "docs" -> <<"d", "o", "c", "s">>
    [] s = "deep" -> <<"d", "e", "e", "p">>
    [] s = "s1" -> <<"s", "1">>
    [] s = "s3" -> <<"s", "3">>
    [] s = "p1" -> <<"p", "1">>
    [] s = "p2" -> <<"p", "2">>
    [] s = "p3" -> <<"p", "3">>
    [] s = "p4" -> <<"p", "4">>

\* The lower-case form of a character ("i" flag of a RegExp).
LowerChar(c) ==
  CASE c = "A" -> "a" [] c = "F" -> "f" [] c = "M" -> "m" [] c = "T" -> "t"
    [] c = "U" -> "u" [] OTHER -> c

(***************************************************************************)
(* wildcardToRegex.  A RegExp is the sequence of its atoms, each a         *)
(* character with a quantifier ("1": exactly one, "*": any number,         *)
(* "?": at most one), anchored at both ends and case-insensitive; Null is  *)
(* the SyntaxError of `new RegExp` ("nothing to repeat").                  *)
(***************************************************************************)
\* The characters pattern.replace(/[.+^${}()|[\]\\]/g, "\\$&") escapes.
Escaped == {".", "+", "^", "$", "{", "}", "(", ")", "|", "[", "]"}

\* The atoms of `^${escaped}$`: the second replace looks for the two
\* characters `\*`, which the escaped pattern of a pattern without backslash
\* never holds, so `*` and `?` reach the RegExp as quantifiers of the
\* character before them.
RECURSIVE RegexAtoms(_, _)
RegexAtoms(cs, done) ==
  IF cs = <<>> THEN [atoms |-> done]
  ELSE
    LET c == Head(cs)
        front == SubSeq(done, 1, Len(done) - 1)
    IN IF c \in {"*", "?"} /\ c \notin Escaped
       THEN IF done = <<>> THEN Null
            ELSE IF done[Len(done)].q = "1"
                 THEN RegexAtoms(Tail(cs), Append(front, [ch |-> done[Len(done)].ch, q |-> c]))
            ELSE IF c = "?" THEN RegexAtoms(Tail(cs), done)
            ELSE Null
       ELSE RegexAtoms(Tail(cs), Append(done, [ch |-> c, q |-> "1"]))

wildcardToRegex(pattern) == RegexAtoms(Chars(pattern), <<>>)

\* The anchored, case-insensitive match of the atoms against the characters s.
RECURSIVE MatchAtoms(_, _)
MatchAtoms(atoms, s) ==
  IF atoms = <<>> THEN s = <<>>
  ELSE
    LET atom == Head(atoms)
        hit == s # <<>> /\ LowerChar(Head(s)) = LowerChar(atom.ch)
    IN CASE atom.q = "1" -> hit /\ MatchAtoms(Tail(atoms), Tail(s))
         [] atom.q = "?" -> \/ MatchAtoms(Tail(atoms), s)
                            \/ hit /\ MatchAtoms(Tail(atoms), Tail(s))
         [] atom.q = "*" -> \/ MatchAtoms(Tail(atoms), s)
                            \/ hit /\ MatchAtoms(atoms, Tail(s))

\* regex.test(s), s a sequence of characters.
RegexTest(regex, s) == MatchAtoms(regex.atoms, s)

(***************************************************************************)
(* URLs.  A URL string is the record of its components: the path is the    *)
(* sequence of the segments between the slashes ("" between two slashes    *)
(* or after a trailing one), the query the sequence of its name/value      *)
(* pairs.  `new URL(raw)` is ParseUrl; a parsed record is its own          *)
(* serialisation (toString).                                               *)
(***************************************************************************)
MkUrl(scheme, host, path, query, hash) ==
  [scheme |-> scheme, host |-> host, path |-> path, query |-> query, hash |-> hash]

Mk(host, path, query, hash) == MkUrl("https", host, path, query, hash)

Root        == Mk("a.test", <<>>, <<>>, "")
RootTracked == Mk("a.test", <<>>, << <<"gclid", "x">> >>, "")
RootUpper   == Mk("A.test", <<>>, <<>>, "top")
Item1       == Mk("a.test", <<"store", "item", "1">>, <<>>, "")
Item2       == Mk("a.test", <<"store", "item", "2">>, <<>>, "")
Item3       == Mk("a.test", <<"store", "item", "3">>, <<>>, "")
AppJs       == Mk("a.test", <<"app.js">>, <<>>, "")
Mirror      == Mk("a.test", <<"mirror">>, <<>>, "")
Evil        == Mk("evil.test", <<"x">>, <<>>, "")
Relative    == MkUrl("", "", <<"api", "login">>, <<>>, "")
Docs        == Mk("a.test", <<"docs">>, <<>>, "")
DocP1       == Mk("a.test", <<"docs", "p1">>, <<>>, "")
DocP2       == Mk("a.test", <<"docs", "p2">>, <<>>, "")
DocP3       == Mk("a.test", <<"docs", "p3">>, <<>>, "")
DocP4       == Mk("a.test", <<"docs", "p4">>, <<>>, "")
Deep0       == Mk("a.test", <<"deep">>, <<>>, "")
DeepS1      == Mk("a.test", <<"deep", "s1">>, <<>>, "")
DeepP2      == Mk("a.test", <<"deep", "p2">>, <<>>, "")
DeepS3      == Mk("a.test", <<"deep", "s3">>, <<>>, "")
DeepP4      == Mk("a.test", <<"deep", "p4">>, <<>>, "")

\* The configuration record (validateConfig's result) of the modelled run.
Config ==
  [ allowed_domains |-> {"a.test"},
    disallowed_paths |-> {},
    exclude_extensions |-> {".png"},
    normalize_query |-> [drop_params |-> {"gclid"}, sort_params |-> TRUE],
    follow_redirects |-> FALSE,
    include_types |-> {"text/html", "application/javascript", "application/json"} ]

\* The seed lists (target.base_urls) a run may be configured with.
SeedLists == { <<Root>>, <<RootUpper, RootTracked>>, <<Evil, Item1>> }

\* toLowerCase of a host name.
HostLower(h) ==
  CASE h = "A.test" -> "a.test" [] h = "Sub.A.test" -> "sub.a.test" [] OTHER -> h

\* The domains d with hostname.endsWith(`.${d}`).
DotSuffixes(h) ==
  CASE h = "sub.a.test" -> {"a.test", "test"}
    [] h \in {"a.test", "nota.test", "evil.test"} -> {"test"}
    [] OTHER -> {}

\* The URL parser's path: "." and ".." segments are resolved, empty
\* segments are kept; a path that is only "/" is the empty sequence.
RECURSIVE RemoveDots(_, _)
RemoveDots(segs, out) ==
  IF segs = <<>> THEN out
  ELSE
    LET seg == Head(segs)
        isLast == Len(segs) = 1
        popped == IF out = <<>> THEN <<>> ELSE SubSeq(out, 1, Len(out) - 1)
    IN CASE seg = ".." -> RemoveDots(Tail(segs), IF isLast THEN Append(popped, "") ELSE popped)
         [] seg = "."  -> RemoveDots(Tail(segs), IF isLast THEN Append(out, "") ELSE out)
         [] OTHER      -> RemoveDots(Tail(segs), Append(out, seg))

\* new URL(raw): fails on a string without scheme, lower-cases the host,
\* resolves the dot segments.
ParseUrl(raw) ==
  IF raw = Null \/ raw.scheme = "" THEN Null
  ELSE LET path == RemoveDots(raw.path, <<>>) IN
       [raw EXCEPT !.host = HostLower(raw.host),
                   !.path = IF path = <<"">> THEN <<>> ELSE path]

\* urlObj.pathname as characters.
RECURSIVE JoinPath(_)
JoinPath(path) ==
  IF path = <<>> THEN <<>>
  ELSE <<"/">> \o Chars(Head(path)) \o JoinPath(Tail(path))

Pathname(path) == IF path = <<>> THEN <<"/">> ELSE JoinPath(path)

\* A filter that removes only the first parameter a pattern matches.
RECURSIVE FilterSeq_first(_, _)
FilterSeq_first(s, drop) ==
  IF s = <<>> THEN <<>>
  ELSE IF \E p \in drop : RegexTest(wildcardToRegex(p), Chars(Head(s)[1]))
       THEN Tail(s)
       ELSE <<Head(s)>> \o FilterSeq_first(Tail(s), drop)

\* params.filter(([key]) => !dropPatterns.some((regex) => regex.test(key)))
RECURSIVE FilterSeq(_, _)
FilterSeq(s, drop) ==
  IF s = <<>> THEN <<>>
  ELSE IF \E p \in drop : RegexTest(wildcardToRegex(p), Chars(Head(s)[1]))
       THEN FilterSeq(Tail(s), drop)
       ELSE <<Head(s)>> \o FilterSeq(Tail(s), drop)

\* The rank of a parameter name in the order of a.localeCompare(b).
KeyRank(k) ==
  CASE k = "a" -> 1 [] k = "b" -> 2 [] k = "c" -> 3 [] k = "fbclid" -> 4
    [] k = "gclid" -> 5 [] k = "utm" -> 6 [] k = "utm_" -> 7 [] k = "utm__" -> 8
    [] k = "utm_source" -> 9 [] k = "UTM_source" -> 10 [] OTHER -> 11

\* kept.sort(([a], [b]) => a.localeCompare(b)): stable, by name only.
RECURSIVE InsertParam(_, _)
InsertParam(sorted, p) ==
  IF sorted = <<>> THEN <<p>>
  ELSE IF KeyRank(p[1]) < KeyRank(Head(sorted)[1])
       THEN <<p>> \o sorted
       ELSE <<Head(sorted)>> \o InsertParam(Tail(sorted), p)

RECURSIVE SortParams(_)
SortParams(s) ==
  IF s = <<>> THEN <<>>
  ELSE InsertParam(SortParams(SubSeq(s, 1, Len(s) - 1)), s[Len(s)])

normalizeUrl(rawUrl, config) ==
  LET urlObj == ParseUrl(rawUrl) IN
  IF urlObj = Null THEN Null
  ELSE
    LET nq == config.normalize_query
        kept == IF nq = Null THEN urlObj.query ELSE FilterSeq(urlObj.query, nq.drop_params)
        q == IF nq = Null THEN urlObj.query
             ELSE IF nq.sort_params THEN SortParams(kept) ELSE kept
        h == IF ~config.follow_redirects /\ urlObj.hash # "" THEN "" ELSE urlObj.hash
    IN [urlObj EXCEPT !.query = q, !.hash = h]

\* path.extname(pathname) of the last path segment.
ExtName(path) ==
  IF path = <<>> THEN ""
  ELSE CASE path[Len(path)] = "app.js" -> ".js"
         [] path[Len(path)] = "logo.png" -> ".png"
         [] OTHER -> ""

\* isUrlAllowed without the test of the host.
isUrlAllowed_anyhost(url, config) ==
  LET urlObj == ParseUrl(url) IN
  IF urlObj = Null THEN FALSE
  ELSE /\ ~(ExtName(urlObj.path) # "" /\ ExtName(urlObj.path) \in config.exclude_extensions)
       /\ ~(\E p \in config.disallowed_paths :
              RegexTest(wildcardToRegex(p), Pathname(urlObj.path)))

\* isUrlAllowed, with state.memory.allowedDomains, disallowedPatterns and
\* disallowedExtensions as prepareInMemoryStructures derives them from config.
isUrlAllowed(url, config) ==
  LET urlObj == ParseUrl(url) IN
  IF urlObj = Null THEN FALSE
  ELSE /\ \E domain \in {HostLower(d) : d \in config.allowed_domains} :
            urlObj.host = domain \/ domain \in DotSuffixes(urlObj.host)
       /\ ~(ExtName(urlObj.path) # "" /\ ExtName(urlObj.path) \in config.exclude_extensions)
       /\ ~(\E p \in config.disallowed_paths :
              RegexTest(wildcardToRegex(p), Pathname(urlObj.path)))

\* computeScore: 1/(depth+1) + priority, kept as an exact fraction n/d.
computeScore(url, meta) ==
  [n |-> 1 + meta.priority * (meta.depth + 1), d |-> meta.depth + 1]

\* b.score - a.score < 0: a sorts before b.
ScoreGreater(a, b) == a.n * b.d > b.n * a.d

Meta(depth, reason) == [depth |-> depth, reason |-> reason, priority |-> 0]

(***************************************************************************)
(* The site: what a fetch of a URL returns when it succeeds, and what the  *)
(* extractors find in a body.  Fetches are deterministic per URL.          *)
(***************************************************************************)
Site(u) ==
  CASE u = Root   -> [contentType |-> "text/html", body |-> "B1", html |-> "B1", resources |-> <<>>]
    [] u = Item1  -> [contentType |-> "application/json", body |-> "J1", html |-> "", resources |-> <<>>]
    [] u = Item2  -> [contentType |-> "application/json", body |-> "J2", html |-> "", resources |-> <<>>]
    [] u = AppJs  -> [contentType |-> "application/javascript", body |-> "S1", html |-> "", resources |-> <<>>]
    [] u = Item3  -> [contentType |-> "application/json", body |-> "J3", html |-> "", resources |-> <<>>]
    [] u = Mirror -> [contentType |-> "application/json", body |-> "S1", html |-> "", resources |-> <<>>]
    [] u = Docs   -> [contentType |-> "text/html", body |-> "D0", html |-> "D0", resources |-> <<>>]
    [] u = DocP1  -> [contentType |-> "text/html", body |-> "D1", html |-> "D1", resources |-> <<>>]
    [] u = DocP2  -> [contentType |-> "text/html", body |-> "D2", html |-> "D2", resources |-> <<>>]
    [] u = DocP3  -> [contentType |-> "text/html", body |-> "D3", html |-> "D3", resources |-> <<>>]
    [] u = DocP4  -> [contentType |-> "text/html", body |-> "D4", html |-> "D4", resources |-> <<>>]
    [] u = Deep0  -> [contentType |-> "text/html", body |-> "E0", html |-> "E0", resources |-> <<>>]
    [] u = DeepS1 -> [contentType |-> "application/javascript", body |-> "E1", html |-> "", resources |-> <<>>]
    [] u = DeepP2 -> [contentType |-> "text/html", body |-> "E2", html |-> "E2", resources |-> <<>>]
    [] u = DeepS3 -> [contentType |-> "application/javascript", body |-> "E3", html |-> "", resources |-> <<>>]
    [] u = DeepP4 -> [contentType |-> "text/html", body |-> "E4", html |-> "E4", resources |-> <<>>]
    [] OTHER      -> [contentType |-> "image/png", body |-> "P1", html |-> "", resources |-> <<>>]

\* contentType.includes(needle)
Includes(contentType, needle) ==
  \/ contentType = needle
  \/ <<contentType, needle>> \in { <<"application/javascript", "javascript">>,
                                   <<"application/json", "json">> }

\* crypto sha256 of a body: one digest per body, no collisions.
Sha256(body) == <<"sha256", body>>

\* computeSimHash of a body: the set of the bits that are 1.
computeSimHash(body) ==
  CASE body = "B1" -> {} [] body = "B2" -> {0, 1, 2}
    [] body = "D0" -> 10..15 [] body = "D1" -> 16..21 [] body = "D2" -> 22..27
    [] body = "D3" -> 28..33 [] body = "D4" -> 34..39
    [] body = "E0" -> 40..45 [] body = "E2" -> 46..51 [] body = "E4" -> 52..57
    [] OTHER -> 0..9

\* simhashSimilarity(a, b) > html_similarity_drop, in integers.
SimilarAbove(a, b) ==
  LET distance == Cardinality((a \ b) \cup (b \ a)) IN
  (SIMHASH_BITS - distance) * 100 > html_similarity_drop_pct * SIMHASH_BITS

\* extractUrlsFromHtml(body, baseUrl): the resolved URLs, first occurrence each.
extractUrlsFromHtml(body) ==
  CASE body = "B1" -> <<AppJs, Mirror, Item1, Item2, Evil, RootTracked>>
    [] body = "D0" -> <<DocP1, DocP2, DocP3, DocP4>>
    [] body = "E0" -> <<DeepS1>>
    [] body = "E2" -> <<DeepS3>>
    [] OTHER -> <<>>

\* The calls of fetch, axios.<method> and graphql with a string literal as
\* their first argument, in the order the patterns find them: the matches of
\* the fetch pattern, then of the axios pattern, then of the graphql pattern.
JsCalls(body) ==
  CASE body = "S1" ->
         << [fn |-> "fetch", arg |-> Relative], [fn |-> "fetch", arg |-> Item3],
            [fn |-> "axios", arg |-> Item2] >>
    [] body = "E1" -> << [fn |-> "fetch", arg |-> DeepP2] >>
    [] body = "E3" -> << [fn |-> "graphql", arg |-> DeepP4] >>
    [] OTHER -> <<>>

\* A text that is no URL: the quote character, the name of an axios method.
Text(s) == MkUrl("", "", <<s>>, <<>>, "")
EmptyText == MkUrl("", "", <<>>, <<>>, "")

\* The capture groups of a match: ("|')(.*?)("|') for fetch and graphql,
\* (get|post|put|delete|patch)("|')(.*?)("|') for axios.
matchGroups(call) ==
  IF call.fn = "axios"
  THEN << Text("get"), Text("quote"), call.arg, Text("quote") >>
  ELSE << Text("quote"), call.arg, Text("quote") >>

\* const candidate = match[2] || match[3]
candidate(call) ==
  IF matchGroups(call)[2] # EmptyText THEN matchGroups(call)[2] ELSE matchGroups(call)[3]

\* The string literals of the calls.
JsLiterals(body) == [i \in 1..Len(JsCalls(body)) |-> JsCalls(body)[i].arg]

\* The candidates of the matches.
JsCandidates(body) == [i \in 1..Len(JsCalls(body)) |-> candidate(JsCalls(body)[i])]

\* results.add(candidate) for the candidates that start with "http"; a Set
\* keeps the first occurrence of each.
RECURSIVE SelectHttp(_)
SelectHttp(s) ==
  IF s = <<>> THEN <<>>
  ELSE LET rest == SelectHttp(Tail(s))
       IN IF Head(s).scheme \in {"http", "https"}
          THEN <<Head(s)>> \o SelectSeq(rest, LAMBDA x : x # Head(s))
          ELSE rest

\* extractApiCandidatesFromJs
extractApiCandidatesFromJs(body) == SelectHttp(JsCandidates(body))

IsDigits(seg) == seg \in {"1", "2", "3"}
IsHex8(seg) == seg \in {"deadbeef"}

generalizeUrl(url) ==
  LET urlObj == ParseUrl(url) IN
  IF urlObj = Null THEN Null
  ELSE [host |-> urlObj.host,
        path |-> [i \in 1..Len(urlObj.path) |->
                    IF IsDigits(urlObj.path[i]) THEN "{id}"
                    ELSE IF IsHex8(urlObj.path[i]) THEN "{hash}"
                    ELSE urlObj.path[i]]]

Get(f, k) == IF k \in DOMAIN f THEN f[k] ELSE 0
Put(f, k, v) == [x \in DOMAIN f \cup {k} |-> IF x = k THEN v ELSE f[x]]

\* registerFamilies(urls) on state.memory: [memory, families].
RECURSIVE registerFamilies(_, _)
registerFamilies(mem, urls) ==
  IF urls = <<>> THEN [memory |-> mem, families |-> <<>>]
  ELSE
    LET pattern == generalizeUrl(Head(urls)) IN
    IF pattern = Null THEN registerFamilies(mem, Tail(urls))
    ELSE
      LET count == Get(mem.familyCounts, pattern) + 1
          m1 == [mem EXCEPT !.familyCounts = Put(@, pattern, count)]
          saved == count <= family_max_samples
          m2 == IF saved
                THEN [m1 EXCEPT !.familySamples = Put(@, pattern, Get(@, pattern) + 1)]
                ELSE m1
          rest == registerFamilies(m2, Tail(urls))
      IN [memory |-> rest.memory,
          families |-> (IF saved THEN <<pattern>> ELSE <<>>) \o rest.families]

(***************************************************************************)
(* The scheduler and the processors, as functions of the launcher state S: *)
(* a record of queue, memory, metrics, manifest, checkpoint, flush, disk.  *)
(***************************************************************************)

\* An enqueue that does not look a URL up in visitedUrls and enqueuedUrls.
enqueueNormalized_again(S, normalizedUrl, meta, force, score) ==
  IF normalizedUrl = Null THEN S
  ELSE IF meta.depth > depth_max THEN S
  ELSE IF ~force /\ ~isUrlAllowed(normalizedUrl, Config) THEN S
  ELSE
    LET sc == IF score = Null THEN computeScore(normalizedUrl, meta) ELSE score IN
    [S EXCEPT !.queue = Append(@, [url |-> normalizedUrl, meta |-> meta, score |-> sc]),
              !.memory.enqueuedUrls = @ \cup {normalizedUrl}]

\* An enqueue that does not compare the depth with depth_max.
enqueueNormalized_nodepth(S, normalizedUrl, meta, force, score) ==
  IF normalizedUrl = Null THEN S
  ELSE IF ~force /\ (~isUrlAllowed(normalizedUrl, Config) \/ normalizedUrl \in S.memory.visitedUrls) THEN S
  ELSE IF ~force /\ normalizedUrl \in S.memory.enqueuedUrls THEN S
  ELSE
    LET sc == IF score = Null THEN computeScore(normalizedUrl, meta) ELSE score IN
    [S EXCEPT !.queue = Append(@, [url |-> normalizedUrl, meta |-> meta, score |-> sc]),
              !.memory.enqueuedUrls = @ \cup {normalizedUrl}]

\* PriorityScheduler.enqueue; score = Null when options.score is absent.
enqueueNormalized(S, normalizedUrl, meta, force, score) ==
  IF normalizedUrl = Null THEN S
  ELSE IF meta.depth > depth_max THEN S
  ELSE IF ~force /\ (~isUrlAllowed(normalizedUrl, Config) \/ normalizedUrl \in S.memory.visitedUrls) THEN S
  ELSE IF ~force /\ normalizedUrl \in S.memory.enqueuedUrls THEN S
  ELSE
    LET sc == IF score = Null THEN computeScore(normalizedUrl, meta) ELSE score IN
    [S EXCEPT !.queue = Append(@, [url |-> normalizedUrl, meta |-> meta, score |-> sc]),
              !.memory.enqueuedUrls = @ \cup {normalizedUrl}]

enqueue(S, rawUrl, meta, force, score) ==
  enqueueNormalized(S, normalizeUrl(rawUrl, Config), meta, force, score)

\* An insertion that puts an item before the items of equal score.
RECURSIVE InsertItem_unstable(_, _)
InsertItem_unstable(sorted, item) ==
  IF sorted = <<>> THEN <<item>>
  ELSE IF ~ScoreGreater(Head(sorted).score, item.score)
       THEN <<item>> \o sorted
       ELSE <<Head(sorted)>> \o InsertItem_unstable(Tail(sorted), item)

\* queue.sort((a, b) => b.score - a.score): stable, descending.
RECURSIVE InsertItem(_, _)
InsertItem(sorted, item) ==
  IF sorted = <<>> THEN <<item>>
  ELSE IF ScoreGreater(item.score, Head(sorted).score)
       THEN <<item>> \o sorted
       ELSE <<Head(sorted)>> \o InsertItem(Tail(sorted), item)

RECURSIVE SortQueue(_)
SortQueue(q) ==
  IF q = <<>> THEN <<>>
  ELSE InsertItem(SortQueue(SubSeq(q, 1, Len(q) - 1)), q[Len(q)])

\* shouldStop with strict comparisons: it stops one artifact too late.
shouldStop_strict(S) ==
  \/ pages_max # 0 /\ S.checkpoint.budget.pages > pages_max
  \/ js_max # 0 /\ S.checkpoint.budget.js > js_max
  \/ api_max # 0 /\ S.checkpoint.budget.api > api_max

\* shouldStop without the budget of pages.
shouldStop_nopages(S) ==
  \/ js_max # 0 /\ S.checkpoint.budget.js >= js_max
  \/ api_max # 0 /\ S.checkpoint.budget.api >= api_max

\* PriorityScheduler.shouldStop
shouldStop(S) ==
  \/ pages_max # 0 /\ S.checkpoint.budget.pages >= pages_max
  \/ js_max # 0 /\ S.checkpoint.budget.js >= js_max
  \/ api_max # 0 /\ S.checkpoint.budget.api >= api_max

\* PriorityScheduler.snapshot
snapshot(S) == [pending |-> S.queue, budget |-> S.checkpoint.budget]

\* routeResponse
routeResponse(response) ==
  IF Includes(response.contentType, "text/html") THEN "html"
  ELSE IF Includes(response.contentType, "javascript") THEN "js"
  ELSE IF Includes(response.contentType, "json") THEN "api"
  ELSE "binary"

shouldCaptureContentType(contentType) ==
  contentType # "" /\ \E allowed \in Config.include_types : Includes(contentType, allowed)

EmptyResult == [threw |-> FALSE, duplicate |-> FALSE, discoveredUrls |-> <<>>,
                artifacts |-> <<>>, families |-> <<>>]

CountDuplicate(S) ==
  [S EXCEPT !.metrics.duplicates = @ + 1, !.manifest.stats.duplicates = @ + 1]

Artifact(type, url, sha, depth, signal) ==
  [type |-> type, signal |-> signal,
   manifestEntry |-> [url |-> url, path |-> <<type, url>>, type |-> type,
                      sha256 |-> sha, depth |-> depth]]

RECURSIVE SelectCaptured(_, _)
SelectCaptured(resources, depth) ==
  IF resources = <<>> THEN <<>>
  ELSE (IF shouldCaptureContentType(Head(resources).contentType)
        THEN << [url |-> Head(resources).url, depth |-> depth + 1, reason |-> "subresource"] >>
        ELSE <<>>) \o SelectCaptured(Tail(resources), depth)

\* fs.outputFile(filePath, content), completed.
outputFile(S, path, content) ==
  [S EXCEPT !.disk.files = Put(@, path, content), !.disk.torn = @ \ {path}]

\* processHtml; ioFail: fs.outputFile rejects.
processHtml(S, sourceUrl, payload, meta, ioFail) ==
  LET body == IF payload.html # "" THEN payload.html ELSE payload.body
      sha == Sha256(body)
      simhash == computeSimHash(body)
      isSimilar == \E i \in 1..Len(S.memory.htmlSimhashes) :
                      SimilarAbove(simhash, S.memory.htmlSimhashes[i].simhash)
      S1 == [S EXCEPT !.memory.urlHashes = @ \cup {sha},
                      !.memory.htmlSimhashes = Append(@, [simhash |-> simhash, url |-> sourceUrl])]
      S2 == outputFile(S1, <<"html", sourceUrl>>, body)
      found == extractUrlsFromHtml(body)
      reg == registerFamilies(S2.memory, found)
      discovered == [i \in 1..Len(found) |->
                       [url |-> found[i], depth |-> -1, reason |-> "html-discovery"]]
      S3 == [S2 EXCEPT !.memory = reg.memory, !.checkpoint.budget.pages = @ + 1]
  IN
  IF body = "" THEN [S |-> S, out |-> EmptyResult]
  ELSE IF sha \in S.memory.urlHashes \/ isSimilar
       THEN [S |-> CountDuplicate(S), out |-> [EmptyResult EXCEPT !.duplicate = TRUE]]
  ELSE IF ioFail THEN [S |-> S1, out |-> [EmptyResult EXCEPT !.threw = TRUE]]
  ELSE [S |-> S3,
        out |-> [threw |-> FALSE, duplicate |-> FALSE,
                 discoveredUrls |-> discovered \o SelectCaptured(payload.resources, meta.depth),
                 artifacts |-> << Artifact("html", sourceUrl, sha, meta.depth, TRUE) >>,
                 families |-> reg.families]]

\* processJavaScript charging the pages counter for a JS artifact.
processJavaScript_pages(S, sourceUrl, payload, meta, ioFail) ==
  LET bodyText == payload.body
      sha == Sha256(bodyText)
      S1 == [S EXCEPT !.memory.urlHashes = @ \cup {sha}]
      S2 == outputFile(S1, <<"js", sourceUrl>>, bodyText)
      endpoints == extractApiCandidatesFromJs(bodyText)
      discovered == [i \in 1..Len(endpoints) |->
                       [url |-> endpoints[i], depth |-> meta.depth + 1, reason |-> "js-endpoint"]]
      reg == registerFamilies(S2.memory, <<sourceUrl>>)
      S3 == [S2 EXCEPT !.memory = reg.memory, !.checkpoint.budget.pages = @ + 1]
  IN
  IF bodyText = "" THEN [S |-> S, out |-> EmptyResult]
  ELSE IF sha \in S.memory.urlHashes
       THEN [S |-> CountDuplicate(S), out |-> [EmptyResult EXCEPT !.duplicate = TRUE]]
  ELSE IF ioFail THEN [S |-> S1, out |-> [EmptyResult EXCEPT !.threw = TRUE]]
  ELSE [S |-> S3,
        out |-> [threw |-> FALSE, duplicate |-> FALSE, discoveredUrls |-> discovered,
                 artifacts |-> << Artifact("js", sourceUrl, sha, meta.depth, endpoints # <<>>) >>,
                 families |-> reg.families]]

\* processJavaScript
processJavaScript(S, sourceUrl, payload, meta, ioFail) ==
  LET bodyText == payload.body
      sha == Sha256(bodyText)
      S1 == [S EXCEPT !.memory.urlHashes = @ \cup {sha}]
      S2 == outputFile(S1, <<"js", sourceUrl>>, bodyText)
      endpoints == extractApiCandidatesFromJs(bodyText)
      discovered == [i \in 1..Len(endpoints) |->
                       [url |-> endpoints[i], depth |-> meta.depth + 1, reason |-> "js-endpoint"]]
      reg == registerFamilies(S2.memory, <<sourceUrl>>)
      S3 == [S2 EXCEPT !.memory = reg.memory, !.checkpoint.budget.js = @ + 1]
  IN
  IF bodyText = "" THEN [S |-> S, out |-> EmptyResult]
  ELSE IF sha \in S.memory.urlHashes
       THEN [S |-> CountDuplicate(S), out |-> [EmptyResult EXCEPT !.duplicate = TRUE]]
  ELSE IF ioFail THEN [S |-> S1, out |-> [EmptyResult EXCEPT !.threw = TRUE]]
  ELSE [S |-> S3,
        out |-> [threw |-> FALSE, duplicate |-> FALSE, discoveredUrls |-> discovered,
                 artifacts |-> << Artifact("js", sourceUrl, sha, meta.depth, endpoints # <<>>) >>,
                 families |-> reg.families]]

\* /[A-Za-z0-9]{24,}/: the least length of a run that is replaced.
REDACT_MIN == 24

\* A text is a sequence of pieces separated by characters that are neither
\* letters nor digits: a run of letters and digits of a given length, or the
\* mark "<redacted>".
Run(n) == [kind |-> "run", len |-> n]
Mark == [kind |-> "mark", len |-> 8]

\* JSON values.
Str(text) == [t |-> "str", s |-> text]
Num == [t |-> "num"]
Arr(items) == [t |-> "arr", items |-> items]
Obj(members) == [t |-> "obj", members |-> members]
Member(key, val) == [key |-> key, val |-> val]
PlainText(text) == [t |-> "text", s |-> text]

\* The text of a body that is no JSON document.
TextOf(bodyText) ==
  CASE bodyText = "S1" -> <<Run(5), Run(26), Run(3)>>
    [] OTHER -> <<Run(4)>>

\* JSON.parse(bodyText); Null: it throws.
\*   J1  {"name": "widget", "password": "hunter2", "token": "<30 letters>"}
\*   J2  {"user": {"email": "a@b.c", "keys": ["<24 letters>", "k1"]}, "id": 7}
\*   J3  {"id": 3, "note": "<23 letters>"}
JsonParse(bodyText) ==
  CASE bodyText = "J1" ->
         Obj(<< Member("name", Str(<<Run(6)>>)),
                Member("password", Str(<<Run(7)>>)),
                Member("token", Str(<<Run(30)>>)) >>)
    [] bodyText = "J2" ->
         Obj(<< Member("user",
                       Obj(<< Member("email", Str(<<Run(1), Run(1), Run(1)>>)),
                              Member("keys", Arr(<< Str(<<Run(24)>>), Str(<<Run(2)>>) >>)) >>)),
                Member("id", Num) >>)
    [] bodyText = "J3" ->
         Obj(<< Member("id", Num), Member("note", Str(<<Run(23)>>)) >>)
    [] OTHER -> Null

\* redactSensitiveStrings
redactSensitiveStrings(text) ==
  [i \in 1..Len(text) |->
     IF text[i].kind = "run" /\ text[i].len >= REDACT_MIN THEN Mark ELSE text[i]]

\* redactJson
RECURSIVE redactJson(_)
redactJson(value) ==
  CASE value.t = "str" -> Str(redactSensitiveStrings(value.s))
    [] value.t = "arr" -> Arr([i \in 1..Len(value.items) |-> redactJson(value.items[i])])
    [] value.t = "obj" ->
         Obj([i \in 1..Len(value.members) |->
                Member(value.members[i].key, redactJson(value.members[i].val))])
    [] OTHER -> value

\* The document processApi parses, or the text when JSON.parse throws.
Document(bodyText) ==
  IF JsonParse(bodyText) # Null THEN JsonParse(bodyText) ELSE PlainText(TextOf(bodyText))

\* processApi, let redacted: the stored representation of a body, the
\* document that JSON.stringify writes or the redacted text.
Redacted(bodyText) ==
  IF JsonParse(bodyText) # Null
  THEN redactJson(JsonParse(bodyText))
  ELSE PlainText(redactSensitiveStrings(TextOf(bodyText)))

\* processApi without the lookup of the hash in urlHashes.
processApi_unchecked(S, sourceUrl, payload, meta, ioFail) ==
  LET bodyText == payload.body
      sha == Sha256(bodyText)
      S1 == [S EXCEPT !.memory.urlHashes = @ \cup {sha}]
      S2 == outputFile(S1, <<"api", sourceUrl>>, Redacted(bodyText))
      S3 == [S2 EXCEPT !.checkpoint.budget.api = @ + 1]
      reg == registerFamilies(S3.memory, <<sourceUrl>>)
  IN
  IF bodyText = "" THEN [S |-> S, out |-> EmptyResult]
  ELSE IF ioFail THEN [S |-> S1, out |-> [EmptyResult EXCEPT !.threw = TRUE]]
  ELSE [S |-> [S3 EXCEPT !.memory = reg.memory],
        out |-> [threw |-> FALSE, duplicate |-> FALSE, discoveredUrls |-> <<>>,
                 artifacts |-> << Artifact("api", sourceUrl, sha, meta.depth, TRUE) >>,
                 families |-> reg.families]]

\* processApi
processApi(S, sourceUrl, payload, meta, ioFail) ==
  LET bodyText == payload.body
      sha == Sha256(bodyText)
      S1 == [S EXCEPT !.memory.urlHashes = @ \cup {sha}]
      S2 == outputFile(S1, <<"api", sourceUrl>>, Redacted(bodyText))
      S3 == [S2 EXCEPT !.checkpoint.budget.api = @ + 1]
      reg == registerFamilies(S3.memory, <<sourceUrl>>)
  IN
  IF bodyText = "" THEN [S |-> S, out |-> EmptyResult]
  ELSE IF sha \in S.memory.urlHashes
       THEN [S |-> CountDuplicate(S), out |-> [EmptyResult EXCEPT !.duplicate = TRUE]]
  ELSE IF ioFail THEN [S |-> S1, out |-> [EmptyResult EXCEPT !.threw = TRUE]]
  ELSE [S |-> [S3 EXCEPT !.memory = reg.memory],
        out |-> [threw |-> FALSE, duplicate |-> FALSE, discoveredUrls |-> <<>>,
                 artifacts |-> << Artifact("api", sourceUrl, sha, meta.depth, TRUE) >>,
                 families |-> reg.families]]

\* processResponse
processResponse(S, sourceUrl, kind, response, meta, ioFail) ==
  CASE kind = "html" -> processHtml(S, sourceUrl, response, meta, ioFail)
    [] kind = "js"   -> processJavaScript(S, sourceUrl, response, meta, ioFail)
    [] kind = "api"  -> processApi(S, sourceUrl, response, meta, ioFail)
    [] OTHER         -> [S |-> S, out |-> EmptyResult]

\* A registerArtifact that counts the artifacts of every type as pages.
registerArtifact_aspages(S, artifact) ==
  LET S1 == [S EXCEPT !.manifest.entries = Append(@, artifact.manifestEntry),
                      !.manifest.stats.pages = @ + 1]
  IN IF artifact.signal
     THEN [S1 EXCEPT !.manifest.stats.signal = @ + 1]
     ELSE [S1 EXCEPT !.manifest.stats.noise = @ + 1]

\* registerArtifact
registerArtifact(S, artifact) ==
  LET t == artifact.type
      S1 == [S EXCEPT !.manifest.entries = Append(@, artifact.manifestEntry)]
      S2 == CASE t = "html" -> [S1 EXCEPT !.manifest.stats.pages = @ + 1]
              [] t = "js"   -> [S1 EXCEPT !.manifest.stats.js = @ + 1]
              [] t = "api"  -> [S1 EXCEPT !.manifest.stats.api = @ + 1]
              [] OTHER      -> S1
  IN IF artifact.signal
     THEN [S2 EXCEPT !.manifest.stats.signal = @ + 1]
     ELSE [S2 EXCEPT !.manifest.stats.noise = @ + 1]

RECURSIVE EnqueueDiscovered(_, _, _)
EnqueueDiscovered(S, discoveredUrls, meta) ==
  IF discoveredUrls = <<>> THEN S
  ELSE
    LET discovered == Head(discoveredUrls)
        candidateMeta ==
          [depth |-> IF discovered.depth = -1 THEN meta.depth + 1 ELSE discovered.depth,
           reason |-> discovered.reason, priority |-> 0]
        S1 == IF isUrlAllowed(discovered.url, Config)
              THEN enqueue(S, discovered.url, candidateMeta, FALSE, Null)
              ELSE S
    IN EnqueueDiscovered(S1, Tail(discoveredUrls), meta)

\* A handleProcessingResult that registers no artifact.
RegisterAll_none(S, artifacts) == S

RECURSIVE RegisterAll(_, _)
RegisterAll(S, artifacts) ==
  IF artifacts = <<>> THEN S
  ELSE RegisterAll(registerArtifact(S, Head(artifacts)), Tail(artifacts))

SeqToSet(q) == {q[i] : i \in 1..Len(q)}

\* handleProcessingResult
handleProcessingResult(S, processed, meta) ==
  LET S1 == EnqueueDiscovered(S, processed.discoveredUrls, meta)
      S2 == RegisterAll(S1, processed.artifacts)
      S3 == [S2 EXCEPT !.manifest.stats.families = @ \cup SeqToSet(processed.families)]
      S4 == IF processed.duplicate THEN CountDuplicate(S3) ELSE S3
  IN [S4 EXCEPT !.flush.processedSinceLastFlush = @ + 1]

\* flushManifest: fs.writeJson(manifestPath, {entries, stats}).
flushManifest(S) ==
  [S EXCEPT !.disk.manifest = [entries |-> S.manifest.entries, stats |-> S.manifest.stats],
            !.disk.torn = @ \ {<<"manifest.json">>}]

\* maybeFlush's condition: processed >= 50 or elapsed >= 60_000.
FlushDue(S) == S.flush.processedSinceLastFlush >= FLUSH_EVERY \/ S.flush.elapsed

\* maybeFlush(force); ioFail: the write of manifest.json rejects.  [S, threw]
maybeFlush(S, force, ioFail) ==
  IF ~force /\ ~FlushDue(S)
  THEN [S |-> S, threw |-> FALSE]
  ELSE IF ioFail THEN [S |-> S, threw |-> TRUE]
  ELSE [S |-> [flushManifest(S) EXCEPT !.flush.processedSinceLastFlush = 0,
                                       !.flush.elapsed = FALSE],
        threw |-> FALSE]

\* persistCheckpoint that never takes the snapshot it is given.
persistCheckpoint_stale(S, snap, ioFail) ==
  IF ioFail THEN [S |-> S, threw |-> TRUE]
  ELSE [S |-> [S EXCEPT !.disk.checkpoint =
                  [lastUrl |-> S.checkpoint.lastUrl,
                   pending |-> S.checkpoint.pending,
                   budget |-> S.checkpoint.budget],
                !.disk.torn = @ \ {<<"checkpoint.json">>}],
        threw |-> FALSE]

\* persistCheckpoint(snapshot); snap = Null when called without argument;
\* ioFail: the write of checkpoint.json rejects.  [S, threw]
persistCheckpoint(S, snap, ioFail) ==
  LET S1 == IF snap # Null
            THEN [S EXCEPT !.checkpoint.pending = snap.pending,
                           !.checkpoint.budget = snap.budget]
            ELSE S
  IN IF ioFail THEN [S |-> S1, threw |-> TRUE]
     ELSE [S |-> [S1 EXCEPT !.disk.checkpoint =
                     [lastUrl |-> S1.checkpoint.lastUrl,
                      pending |-> S1.checkpoint.pending,
                      budget |-> S1.checkpoint.budget],
                   !.disk.torn = @ \ {<<"checkpoint.json">>}],
           threw |-> FALSE]

\* The `state` object of a process that has just been started.
FreshState(d) ==
  [ queue |-> <<>>,
    memory |-> [visitedUrls |-> {}, enqueuedUrls |-> {}, urlHashes |-> {},
                htmlSimhashes |-> <<>>, familySamples |-> <<>>, familyCounts |-> <<>>],
    metrics |-> [visited |-> 0, skipped |-> 0, errors |-> 0, duplicates |-> 0],
    manifest |-> [entries |-> <<>>,
                  stats |-> [pages |-> 0, js |-> 0, api |-> 0, duplicates |-> 0,
                             families |-> {}, signal |-> 0, noise |-> 0]],
    checkpoint |-> [lastUrl |-> Null, pending |-> <<>>,
                    budget |-> [pages |-> 0, js |-> 0, api |-> 0]],
    flush |-> [processedSinceLastFlush |-> 0, elapsed |-> FALSE],
    disk |-> d ]

\* prepareInMemoryStructures: state.checkpoint.pending is still the initial [].
prepareInMemoryStructures(S) ==
  [S EXCEPT !.memory.enqueuedUrls =
              @ \cup {S.checkpoint.pending[i].url : i \in 1..Len(S.checkpoint.pending)}]

\* initOutput: load manifest.json and checkpoint.json when they exist; a file
\* that fs.readJson cannot parse is logged and skipped.
initOutput(S) ==
  LET S1 == IF S.disk.manifest # Null /\ <<"manifest.json">> \notin S.disk.torn
            THEN [S EXCEPT !.manifest.entries = S.disk.manifest.entries,
                           !.manifest.stats = S.disk.manifest.stats]
            ELSE S
  IN IF S1.disk.checkpoint # Null /\ <<"checkpoint.json">> \notin S.disk.torn
     THEN [S1 EXCEPT !.checkpoint = S1.disk.checkpoint]
     ELSE S1

RECURSIVE EnqueueRestored(_, _)
EnqueueRestored(S, pending) ==
  IF pending = <<>> THEN S
  ELSE EnqueueRestored(enqueue(S, Head(pending).url, Head(pending).meta, TRUE, Head(pending).score),
                       Tail(pending))

RECURSIVE EnqueueSeeds(_, _)
EnqueueSeeds(S, urls) ==
  IF urls = <<>> THEN S
  ELSE EnqueueSeeds(enqueue(S, Head(urls), Meta(0, "seed"), TRUE, Null), Tail(urls))

\* A constructor that only restores the pending list.
SchedulerNew_restoreonly(S, seeds) == EnqueueRestored(S, S.checkpoint.pending)

\* new PriorityScheduler({config, checkpoint})
SchedulerNew(S, seeds) ==
  IF S.checkpoint.pending # <<>>
  THEN EnqueueRestored(S, S.checkpoint.pending)
  ELSE EnqueueSeeds(S, seeds)

\* main up to the first iteration of startCrawl.
Startup(d, seeds) ==
  SchedulerNew(initOutput(prepareInMemoryStructures(FreshState(d))), seeds)

(***************************************************************************)
(* The state machine.                                                      *)
(***************************************************************************)
VARIABLES
  base_urls,   \* config.target.base_urls
  queue,       \* scheduler.queue
  memory,      \* state.memory
  metrics,     \* state.metrics
  manifest,    \* state.manifest
  checkpoint,  \* state.checkpoint
  flush,       \* state.flush
  disk,        \* manifest.json, checkpoint.json and the artifact files
  pc,          \* where the process is in main / startCrawl
  nextItem,    \* the item of the current iteration
  response,    \* the response of the current iteration
  run,         \* how many times the process was started again
  exit,        \* how the process ended: code and the place it ended at
  hist,        \* history of the current run
  probe        \* the call under test of the scheduler and URL specifications

vars == <<base_urls, queue, memory, metrics, manifest, checkpoint, flush, disk,
          pc, nextItem, response, run, exit, hist, probe>>

St == [queue |-> queue, memory |-> memory, metrics |-> metrics, manifest |-> manifest,
       checkpoint |-> checkpoint, flush |-> flush, disk |-> disk]

SetState(S) ==
  /\ queue' = S.queue
  /\ memory' = S.memory
  /\ metrics' = S.metrics
  /\ manifest' = S.manifest
  /\ checkpoint' = S.checkpoint
  /\ flush' = S.flush
  /\ disk' = S.disk

\* The output root: the content last written to manifest.json, to
\* checkpoint.json and to each artifact file, and (torn) the files whose last
\* write was cut short, which hold only a part of that content.
EmptyDisk == [manifest |-> Null, checkpoint |-> Null, files |-> <<>>, torn |-> {}]

\* History of a run: what it loaded at startup, what it dequeued, the 
\* checkpoint writes it made, how the runs before it ended ("signal": each by
\* an external termination), and how many times the flush timer expired and the
\* environment failed a fetch or a disk write (counted over all runs).
\* discovered and registered are kept over all runs: the pairs <<url, page>>
\* of a URL that handleProcessingResult pushed on the queue and the page it
\* was found in, and the URLs whose artifact registerArtifact has registered.
NewHist(S, faults, events, prior) ==
  [ startEntries |-> Len(S.manifest.entries),
    discovered |-> {},
    registered |-> {},
    failed |-> {},
    startBudget |-> S.checkpoint.budget,
    dequeued |-> <<>>,
    writes |-> 0,
    lastWrite |-> "none",
    prior |-> prior,
    events |-> events,
    faults |-> faults ]

InitWith(seedLists) ==
  /\ base_urls \in seedLists
  /\ \E S \in {Startup(EmptyDisk, base_urls)} :
       /\ queue = S.queue
       /\ memory = S.memory
       /\ metrics = S.metrics
       /\ manifest = S.manifest
       /\ checkpoint = S.checkpoint
       /\ flush = S.flush
       /\ disk = S.disk
       /\ hist = NewHist(S, 0, 0, "none")
  /\ pc = "select"
  /\ nextItem = Null
  /\ response = Null
  /\ run = 0
  /\ exit = [code |-> "running", at |-> "none"]
  /\ probe = Null

Init == InitWith(SeedLists)

\* Whether a disk write of this step may reject.
MayFail == IF hist.events < MaxEvents THEN BOOLEAN ELSE {FALSE}

\* startCrawl: shouldStop is true, or dequeue returns null: leave the loop.
LoopEnd ==
  /\ pc = "select"
  /\ shouldStop(St) \/ queue = <<>>
  /\ pc' = "finalize"
  /\ UNCHANGED <<probe, base_urls, queue, memory, metrics, manifest, checkpoint, flush, disk,
                 nextItem, response, run, exit, hist>>

\* PriorityScheduler.dequeue: sort, shift.  [queue, item]
dequeue(q) == [queue |-> Tail(SortQueue(q)), item |-> Head(SortQueue(q))]

\* startCrawl from dequeue to the scope check, as a function of S.
\* [S, item, allowed]
DequeueStep(S) ==
  LET d == dequeue(S.queue)
      S1 == [S EXCEPT !.queue = d.queue, !.checkpoint.lastUrl = d.item.url]
      allowed == isUrlAllowed(d.item.url, Config)
  IN [S |-> IF allowed THEN S1 ELSE [S1 EXCEPT !.metrics.skipped = @ + 1],
      item |-> d.item, allowed |-> allowed]

\* startCrawl: dequeue the next item, note lastUrl, check the scope.
Dequeue ==
  /\ pc = "select"
  /\ ~shouldStop(St)
  /\ queue # <<>>
  /\ \E r \in {DequeueStep(St)} :
       /\ SetState(r.S)
       /\ nextItem' = r.item
       /\ hist' = [hist EXCEPT !.dequeued = Append(@, r.item.url)]
       /\ pc' = IF r.allowed THEN "fetch" ELSE "checkpoint"
  /\ UNCHANGED <<probe, base_urls, response, run, exit>>

\* fetchUrl returns the response of the site.
FetchOk ==
  /\ pc = "fetch"
  /\ response' = Site(nextItem.url)
  /\ pc' = "process"
  /\ UNCHANGED <<probe, base_urls, queue, memory, metrics, manifest, checkpoint, flush, disk,
                 nextItem, run, exit, hist>>

\* fetchUrl throws (timeout, network) or returns nothing.
FetchFail ==
  /\ pc = "fetch"
  /\ metrics' = [metrics EXCEPT !.errors = @ + 1]
  /\ hist.events < MaxEvents
  /\ hist' = [hist EXCEPT !.faults = @ + 1, !.events = @ + 1,
                           !.failed = @ \cup {nextItem.url}]
  /\ pc' = "checkpoint"
  /\ UNCHANGED <<probe, base_urls, queue, memory, manifest, checkpoint, flush, disk,
                 nextItem, response, run, exit>>

\* A loop that counts an item whose processor threw as an error and as a
\* visit.
markProcessed_both(r, item) ==
  IF r.out.threw
  THEN [S |-> [r.S EXCEPT !.metrics.errors = @ + 1, !.metrics.visited = @ + 1],
        threw |-> TRUE]
  ELSE [S |-> [handleProcessingResult(r.S, r.out, item.meta)
                 EXCEPT !.metrics.visited = @ + 1,
                        !.memory.visitedUrls = @ \cup {item.url}],
        threw |-> FALSE]

\* startCrawl after processResponse returned r = [S, out]: the catch of a
\* processor that threw, or handleProcessingResult and markProcessed.
markProcessed(r, item) ==
  IF r.out.threw
  THEN [S |-> [r.S EXCEPT !.metrics.errors = @ + 1], threw |-> TRUE]
  ELSE [S |-> [handleProcessingResult(r.S, r.out, item.meta)
                 EXCEPT !.metrics.visited = @ + 1,
                        !.memory.visitedUrls = @ \cup {item.url}],
        threw |-> FALSE]

\* One iteration from routeResponse to markProcessed, as a function of S.
\* [S, threw]
ProcessStep(S, item, resp, ioFail) ==
  markProcessed(processResponse(S, item.url, routeResponse(resp), resp, item.meta, ioFail), item)

\* startCrawl: route, process, handle the result, mark the item processed;
\* a processor whose file write rejects makes the iteration fail.
Process ==
  /\ pc = "process"
  /\ \E ioFail \in MayFail :
       \E r \in {ProcessStep(St, nextItem, response, ioFail)} :
       /\ r.threw = ioFail
       /\ SetState(r.S)
       /\ hist' = [hist EXCEPT !.faults = IF r.threw THEN @ + 1 ELSE @, !.events = IF r.threw THEN @ + 1 ELSE @,
                               !.discovered = @ \cup {<<r.S.queue[i].url, nextItem.url>> :
                                                        i \in Len(queue) + 1 .. Len(r.S.queue)},
                               !.registered = @ \cup {r.S.manifest.entries[i].url :
                                                        i \in Len(manifest.entries) + 1 .. Len(r.S.manifest.entries)},
                               !.failed = IF r.threw THEN @ \cup {nextItem.url} ELSE @]
       /\ pc' = IF r.threw THEN "checkpoint" ELSE "flush"
  /\ UNCHANGED <<probe, base_urls, nextItem, response, run, exit>>

\* 60 s have passed since state.flush.lastFlushAt.  The time of a crawl passes
\* while an iteration awaits the fetch and the processor.
Elapse ==
  /\ pc \in {"fetch", "process"}
  /\ ~flush.elapsed
  /\ hist.events < MaxEvents
  /\ flush' = [flush EXCEPT !.elapsed = TRUE]
  /\ hist' = [hist EXCEPT !.events = @ + 1]
  /\ UNCHANGED <<probe, base_urls, queue, memory, metrics, manifest, checkpoint, disk,
                 pc, nextItem, response, run, exit>>

\* startCrawl: maybeFlush(); a rejected write is not caught in the loop.
Flush ==
  /\ pc = "flush"
  /\ \E ioFail \in MayFail :
       \E r \in {maybeFlush(St, FALSE, ioFail)} :
       /\ r.threw = ioFail
       /\ SetState(r.S)
       /\ hist' = [hist EXCEPT !.faults = IF r.threw THEN @ + 1 ELSE @,
                               !.events = IF r.threw THEN @ + 1 ELSE @]
       /\ pc' = IF r.threw THEN "fatal" ELSE "checkpoint"
  /\ UNCHANGED <<probe, base_urls, nextItem, response, run, exit>>

\* startCrawl: persistCheckpoint(await scheduler.snapshot()), at the end of
\* every iteration that dequeued an item.
Checkpoint ==
  /\ pc = "checkpoint"
  /\ \E ioFail \in MayFail :
       \E r \in {persistCheckpoint(St, snapshot(St), ioFail)} :
       /\ SetState(r.S)
       /\ hist' = [hist EXCEPT !.faults = IF r.threw THEN @ + 1 ELSE @, !.events = IF r.threw THEN @ + 1 ELSE @,
                               !.writes = IF r.threw THEN @ ELSE @ + 1,
                               !.lastWrite = IF r.threw THEN @ ELSE "iteration"]
       /\ pc' = IF r.threw THEN "fatal" ELSE "select"
  /\ UNCHANGED <<probe, base_urls, nextItem, response, run, exit>>

\* finalize: maybeFlush(true).
FinalFlush ==
  /\ pc = "finalize"
  /\ \E ioFail \in MayFail :
       \E r \in {maybeFlush(St, TRUE, ioFail)} :
       /\ SetState(r.S)
       /\ hist' = [hist EXCEPT !.faults = IF r.threw THEN @ + 1 ELSE @, !.events = IF r.threw THEN @ + 1 ELSE @]
       /\ pc' = IF r.threw THEN "fatal" ELSE "finalcheckpoint"
  /\ UNCHANGED <<probe, base_urls, nextItem, response, run, exit>>

\* finalize: persistCheckpoint(), then main returns: exit code 0.
FinalCheckpoint ==
  /\ pc = "finalcheckpoint"
  /\ \E ioFail \in MayFail :
       \E r \in {persistCheckpoint(St, Null, ioFail)} :
       /\ SetState(r.S)
       /\ hist' = [hist EXCEPT !.faults = IF r.threw THEN @ + 1 ELSE @, !.events = IF r.threw THEN @ + 1 ELSE @,
                               !.writes = IF r.threw THEN @ ELSE @ + 1,
                               !.lastWrite = IF r.threw THEN @ ELSE "final"]
       /\ pc' = IF r.threw THEN "fatal" ELSE "exited"
       /\ exit' = IF r.threw THEN exit ELSE [code |-> "0", at |-> pc]
  /\ UNCHANGED <<probe, base_urls, nextItem, response, run>>

\* main's catch: the emergency persistCheckpoint(), exit code 1.
Fatal ==
  /\ pc = "fatal"
  /\ \E ioFail \in MayFail :
       \E r \in {persistCheckpoint(St, Null, ioFail)} :
       /\ SetState(r.S)
       /\ hist' = [hist EXCEPT !.faults = IF r.threw THEN @ + 1 ELSE @, !.events = IF r.threw THEN @ + 1 ELSE @,
                               !.writes = IF r.threw THEN @ ELSE @ + 1,
                               !.lastWrite = IF r.threw THEN @ ELSE "emergency"]
  /\ pc' = "exited"
  /\ exit' = [code |-> "1", at |-> pc]
  /\ UNCHANGED <<probe, base_urls, nextItem, response, run>>

\* An external termination (SIGTERM, SIGINT, kill): the launcher installs no
\* signal handler, so the process ends where it is; the files stay as they are.
Terminate ==
  /\ pc # "exited"
  /\ run < MaxRestarts
  /\ hist.events < MaxEvents
  /\ pc' = "exited"
  /\ exit' = [code |-> "signal", at |-> pc]
  /\ hist' = [hist EXCEPT !.events = @ + 1]
  /\ UNCHANGED <<probe, base_urls, queue, memory, metrics, manifest, checkpoint, flush, disk,
                 nextItem, response, run>>

\* The write of a processor whose iteration gives r: the artifact at path
\* when the processor stores one.
WritingArtifact(r, path) ==
  [file |-> IF r.S.disk.files # disk.files THEN path ELSE <<>>, disk |-> r.S.disk]

\* The write the step at pc has under way: the file (<<>> when the step
\* writes none) and the disk as the completed write leaves it.
Writing ==
  CASE pc = "process" ->
         WritingArtifact(ProcessStep(St, nextItem, response, FALSE),
                         <<routeResponse(response), nextItem.url>>)
    [] pc = "flush" ->
         [file |-> IF FlushDue(St) THEN <<"manifest.json">> ELSE <<>>,
          disk |-> flushManifest(St).disk]
    [] pc = "finalize" ->
         [file |-> <<"manifest.json">>, disk |-> flushManifest(St).disk]
    [] pc = "checkpoint" ->
         [file |-> <<"checkpoint.json">>,
          disk |-> persistCheckpoint(St, snapshot(St), FALSE).S.disk]
    [] pc \in {"finalcheckpoint", "fatal"} ->
         [file |-> <<"checkpoint.json">>, disk |-> persistCheckpoint(St, Null, FALSE).S.disk]
    [] OTHER -> [file |-> <<>>, disk |-> disk]

\* An external termination while fs.writeJson / fs.outputFile is writing: the
\* file is opened for writing in place (truncated) and filled afterwards, so
\* the process ends with a part of the new content in the file.  In the
\* loop's maybeFlush a write is under way only when the flush is due.
TerminateInWrite ==
  /\ pc # "exited"
  /\ run < MaxRestarts
  /\ hist.events < MaxEvents
  /\ \E w \in {Writing} :
       /\ w.file # <<>>
       /\ disk' = [w.disk EXCEPT !.torn = @ \cup {w.file}]
  /\ pc' = "exited"
  /\ exit' = [code |-> "signal", at |-> pc]
  /\ hist' = [hist EXCEPT !.events = @ + 1]
  /\ UNCHANGED <<probe, base_urls, queue, memory, metrics, manifest, checkpoint, flush,
                 nextItem, response, run>>

\* The launcher is started again on the same output root and configuration.
Restart ==
  /\ pc = "exited"
  /\ run < MaxRestarts
  /\ \E S \in {Startup(disk, base_urls)} :
       /\ SetState(S)
       /\ hist' = [NewHist(S, hist.faults, hist.events,
                        IF exit.code = "signal" /\ hist.prior \in {"none", "signal"}
                        THEN "signal" ELSE "other")
                      EXCEPT !.discovered = hist.discovered, !.registered = hist.registered,
                                   !.failed = hist.failed]
  /\ pc' = "select"
  /\ nextItem' = Null
  /\ response' = Null
  /\ run' = run + 1
  /\ exit' = [code |-> "running", at |-> "none"]
  /\ UNCHANGED <<probe, base_urls>>

Next ==
  \/ LoopEnd
  \/ Dequeue
  \/ FetchOk
  \/ FetchFail
  \/ Process
  \/ Elapse
  \/ Flush
  \/ Checkpoint
  \/ FinalFlush
  \/ FinalCheckpoint
  \/ Fatal
  \/ Terminate
  \/ TerminateInWrite
  \/ Restart

Spec == Init /\ [][Next]_vars

(***************************************************************************)
(* The URL functions on their own: normalizeUrl and isUrlAllowed are       *)
(* called on a URL under a configuration; probe holds the call and, once   *)
(* it has returned, its results.  The launcher itself stays idle.          *)
(***************************************************************************)
CanonConfig ==
  [Config EXCEPT !.normalize_query =
     [drop_params |-> {"utm_*", "gclid", "fbclid"}, sort_params |-> TRUE]]

\* The configurations of crawl.normalize_query and crawl.follow_redirects.
NormalizeConfigs ==
  { [Config EXCEPT !.normalize_query = nq, !.follow_redirects = fr] :
      nq \in { Null,
               [drop_params |-> {}, sort_params |-> TRUE],
               [drop_params |-> {"gclid"}, sort_params |-> FALSE],
               CanonConfig.normalize_query },
      fr \in BOOLEAN }

\* The configurations of target.allowed_domains and target.disallowed_paths.
ScopeConfigs ==
  { [Config EXCEPT !.allowed_domains = ad, !.disallowed_paths = dp] :
      ad \in { {"a.test"}, {"A.test", "evil.test"} },
      dp \in { {}, {"/admin"}, {"/admin/*"}, {"/app.js", "/admin/*"} } }

Q(k, v) == <<k, v>>

\* Pairs of URLs that differ only in: the case of the host, the fragment,
\* tracking parameters, the order of the parameters, the order of the values
\* of one parameter, duplicate slashes, dot segments.
UrlPairs ==
  { << Mk("A.test", <<"x">>, <<>>, ""),  Mk("a.test", <<"x">>, <<>>, "") >>,
    << Mk("a.test", <<"x">>, <<>>, "frag"),  Mk("a.test", <<"x">>, <<>>, "") >>,
    << Mk("a.test", <<"x">>, <<Q("gclid", "x")>>, ""),  Mk("a.test", <<"x">>, <<>>, "") >>,
    << Mk("a.test", <<"x">>, <<Q("gclid", "x"), Q("fbclid", "y")>>, ""),
       Mk("a.test", <<"x">>, <<>>, "") >>,
    << Mk("a.test", <<"x">>, <<Q("utm_source", "x")>>, ""),  Mk("a.test", <<"x">>, <<>>, "") >>,
    << Mk("a.test", <<"x">>, <<Q("b", "2"), Q("a", "1")>>, ""),
       Mk("a.test", <<"x">>, <<Q("a", "1"), Q("b", "2")>>, "") >>,
    << Mk("a.test", <<"x">>, <<Q("a", "2"), Q("a", "1")>>, ""),
       Mk("a.test", <<"x">>, <<Q("a", "1"), Q("a", "2")>>, "") >>,
    << Mk("a.test", <<"a", "", "b">>, <<>>, ""),  Mk("a.test", <<"a", "b">>, <<>>, "") >>,
    << Mk("a.test", <<"a", ".", "b">>, <<>>, ""),  Mk("a.test", <<"a", "b">>, <<>>, "") >>,
    << Mk("a.test", <<"a", "c", "..", "b">>, <<>>, ""),  Mk("a.test", <<"a", "b">>, <<>>, "") >>,
    << Mk("a.test", <<"a", "b", ".">>, <<>>, ""),  Mk("a.test", <<"a", "b", "">>, <<>>, "") >> }

\* https://A.test/Foo/?b=2&utm_source=x&a=1#frag
FooTracked ==
  Mk("A.test", <<"Foo", "">>, <<Q("b", "2"), Q("utm_source", "x"), Q("a", "1")>>, "frag")

\* URLs for normalizeUrl, each with a second URL normalized beside it.
NormalizeInputs ==
  UrlPairs \cup { <<FooTracked, FooTracked>>, <<Relative, Relative>>,
                  << Mk("a.test", <<>>, <<Q("utm_", "1"), Q("UTM_source", "2"), Q("utm", "3")>>, ""),
                     Mk("a.test", <<"">>, <<Q("utm", "3")>>, "") >> }

\* URLs for isUrlAllowed.
ScopeInputs ==
  { Mk(h, path, <<>>, "") :
      h \in {"a.test", "Sub.A.test", "nota.test", "evil.test"},
      path \in { <<>>, <<"admin">>, <<"admin", "">>, <<"admin", "users">>,
                 <<"Admin", "users">>, <<"app.js">>, <<"logo.png">> } }
  \cup { MkUrl("ftp", "a.test", <<"pub">>, <<>>, ""),
         MkUrl("http", "a.test", <<"pub">>, <<>>, ""),
         Relative }

\* The launcher's own variables while a function is called on its own.
Idle ==
  LET S == FreshState(EmptyDisk) IN
  /\ base_urls = <<>>
  /\ queue = S.queue
  /\ memory = S.memory
  /\ metrics = S.metrics
  /\ manifest = S.manifest
  /\ checkpoint = S.checkpoint
  /\ flush = S.flush
  /\ disk = S.disk
  /\ hist = NewHist(S, 0, 0, "none")
  /\ pc = "idle"
  /\ nextItem = Null
  /\ response = Null
  /\ run = 0
  /\ exit = [code |-> "running", at |-> "none"]

InitUrl ==
  /\ Idle
  /\ \/ \E in \in NormalizeInputs, config \in NormalizeConfigs :
          probe = [fn |-> "normalizeUrl", url |-> in[1], other |-> in[2],
                   config |-> config, returned |-> FALSE]
     \/ \E url \in ScopeInputs, config \in ScopeConfigs :
          probe = [fn |-> "isUrlAllowed", url |-> url, config |-> config, returned |-> FALSE]

\* normalizeUrl(url, config), then again on its result, and on the other URL.
CallNormalizeUrl ==
  /\ probe.fn = "normalizeUrl"
  /\ ~probe.returned
  /\ LET result == normalizeUrl(probe.url, probe.config) IN
     probe' = [fn |-> "normalizeUrl", url |-> probe.url, other |-> probe.other,
               config |-> probe.config, returned |-> TRUE,
               result |-> result,
               again |-> normalizeUrl(result, probe.config),
               resultOther |-> normalizeUrl(probe.other, probe.config)]
  /\ UNCHANGED <<base_urls, queue, memory, metrics, manifest, checkpoint, flush, disk,
                 pc, nextItem, response, run, exit, hist>>

\* isUrlAllowed(url, config)
CallIsUrlAllowed ==
  /\ probe.fn = "isUrlAllowed"
  /\ ~probe.returned
  /\ probe' = [fn |-> "isUrlAllowed", url |-> probe.url, config |-> probe.config,
               returned |-> TRUE, result |-> isUrlAllowed(probe.url, probe.config)]
  /\ UNCHANGED <<base_urls, queue, memory, metrics, manifest, checkpoint, flush, disk,
                 pc, nextItem, response, run, exit, hist>>

NextUrl ==
  \/ CallNormalizeUrl
  \/ CallIsUrlAllowed

SpecUrl == InitUrl /\ [][NextUrl]_vars

(***************************************************************************)
(* The scheduler on its own: enqueue calls with any meta, forced or not,   *)
(* interleaved with dequeues.  meta.seq numbers the enqueue calls (enqueue *)
(* stores the meta it is given); probe.out is the sequence dequeue         *)
(* returned.                                                               *)
(***************************************************************************)
MaxEnqueues == 3

AboutUs  == Mk("a.test", <<"about-us">>, <<>>, "")
ApiUsers == Mk("a.test", <<"api", "v1", "users">>, <<>>, "")

SchedUrls == {AboutUs, ApiUsers, Item1}
SchedDepths == {0, 1}
SchedPriorities == {0, 1}

InitSched ==
  /\ Idle
  /\ probe = [fn |-> "scheduler", n |-> 0, out |-> <<>>]

\* scheduler.enqueue(url, meta, {force})
SchedEnqueue ==
  /\ probe.n < MaxEnqueues
  /\ \E url \in SchedUrls, depth \in SchedDepths, priority \in SchedPriorities,
        force \in BOOLEAN :
       LET meta == [depth |-> depth, reason |-> "probe", priority |-> priority,
                    seq |-> probe.n + 1]
           S == enqueue(St, url, meta, force, Null)
       IN /\ queue' = S.queue
          /\ memory' = S.memory
  /\ probe' = [probe EXCEPT !.n = @ + 1]
  /\ UNCHANGED <<base_urls, metrics, manifest, checkpoint, flush, disk,
                 pc, nextItem, response, run, exit, hist>>

\* scheduler.dequeue()
SchedDequeue ==
  /\ queue # <<>>
  /\ queue' = dequeue(queue).queue
  /\ probe' = [probe EXCEPT !.out = Append(@, dequeue(queue).item)]
  /\ UNCHANGED <<base_urls, memory, metrics, manifest, checkpoint, flush, disk,
                 pc, nextItem, response, run, exit, hist>>

NextSched ==
  \/ SchedEnqueue
  \/ SchedDequeue

SpecSched == InitSched /\ [][NextSched]_vars

(***************************************************************************)
(* Reference: the uninterrupted run in which no fetch and no disk write    *)
(* fails, computed with the operators of the loop.                         *)
(***************************************************************************)
RECURSIVE RefLoop(_)
RefLoop(S) ==
  IF shouldStop(S) \/ S.queue = <<>> THEN S
  ELSE LET d == DequeueStep(S) IN
       IF d.allowed
       THEN RefLoop(ProcessStep(d.S, d.item, Site(d.item.url), FALSE).S)
       ELSE RefLoop(d.S)

RefArtifacts(seeds) ==
  LET S == RefLoop(Startup(EmptyDisk, seeds)) IN
  {S.manifest.entries[i].sha256 : i \in 1..Len(S.manifest.entries)}

Entries == manifest.entries
Budget == checkpoint.budget
Kinds == {"html", "js", "api"}
BudgetOf(b, kind) ==
  CASE kind = "html" -> b.pages [] kind = "js" -> b.js [] kind = "api" -> b.api
MaxOf(kind) ==
  CASE kind = "html" -> pages_max [] kind = "js" -> js_max [] kind = "api" -> api_max
PendingUrls(ck) == {ck.pending[i].url : i \in 1..Len(ck.pending)}
\* The manifest entries registered by the current run.
NewEntries == {i \in 1..Len(Entries) : i > hist.startEntries}

(***************************************************************************)
(* C1. In a run, no canonical URL is returned by dequeue() more than once, *)
(* whatever the forced (seed, restore) and non-forced enqueues were.       *)
(***************************************************************************)
C1_DequeuedAtMostOnce ==
  \A i, j \in 1..Len(hist.dequeued) :
    i # j => hist.dequeued[i] # hist.dequeued[j]

(***************************************************************************)
(* C2. In a run started with an empty manifest no sha256 is in two         *)
(* manifest entries, whichever processors registered them; a response      *)
(* whose hash is already registered is counted as a duplicate and adds no  *)
(* manifest entry.                                                         *)
(***************************************************************************)
C2_NoShaTwice ==
  /\ hist.startEntries = 0 =>
       \A i, j \in 1..Len(Entries) : i # j => Entries[i].sha256 # Entries[j].sha256
  /\ (pc = "process" /\ routeResponse(response) # "binary"
        /\ Sha256(response.body) \in {Entries[i].sha256 : i \in NewEntries})
     => LET r == ProcessStep(St, nextItem, response, FALSE) IN
          /\ r.S.manifest.entries = Entries
          /\ r.S.metrics.duplicates > metrics.duplicates
          /\ r.S.disk.files = disk.files

C2_Witness ==
  /\ hist.startEntries = 0
  /\ pc = "flush"
  /\ nextItem.url = Mirror
  /\ metrics.duplicates > 0
  /\ \E i \in 1..Len(Entries) : Entries[i].sha256 = Sha256("S1") /\ Entries[i].type = "js"

(***************************************************************************)
(* C3. For every family key at most family_max_samples artifacts are       *)
(* saved: further responses of the family produce no artifact.             *)
(***************************************************************************)
C3_FamilyCap ==
  \A i \in NewEntries :
    Cardinality({j \in NewEntries :
                   generalizeUrl(Entries[j].url) = generalizeUrl(Entries[i].url)})
      <= family_max_samples

(***************************************************************************)
(* C4. When the run terminates, every budget counter with a positive       *)
(* maximum is at most its maximum, also in a run resumed from a checkpoint.*)
(***************************************************************************)
C4_BudgetRespect ==
  pc \in {"finalize", "finalcheckpoint", "fatal", "exited"} =>
    \A k \in Kinds : MaxOf(k) > 0 => BudgetOf(Budget, k) <= MaxOf(k)

C4_Witness ==
  /\ pc = "exited"
  /\ exit.code = "0"
  /\ run > 0
  /\ Budget.api = api_max
  /\ Len(disk.checkpoint.pending) > 0

(***************************************************************************)
(* C5. A step of a run that emits an artifact of kind K adds one to the K  *)
(* budget counter and leaves the other two alone; every other step of the  *)
(* run leaves the three counters unchanged, so no counter ever decreases.  *)
(***************************************************************************)
C5_BudgetFrame ==
  [][ run' = run =>
        IF Len(manifest'.entries) = Len(Entries) + 1
        THEN LET k == manifest'.entries[Len(manifest'.entries)].type IN
             \A x \in Kinds :
               BudgetOf(checkpoint'.budget, x) = BudgetOf(Budget, x) + (IF x = k THEN 1 ELSE 0)
        ELSE /\ manifest'.entries = Entries
             /\ checkpoint'.budget = Budget ]_vars

C5_Witness ==
  /\ pc = "flush"
  /\ Budget.js = 1
  /\ Budget.pages = 1
  /\ Budget.api = 0
  /\ metrics.duplicates > 0
  /\ Entries # <<>>
  /\ Entries[Len(Entries)].type = "js"

(***************************************************************************)
(* C6. The checkpoint on disk reflects each artifact registration of the   *)
(* run fully (the item is not pending and its counter is incremented) or   *)
(* not at all (the item is pending and its counter is not incremented):    *)
(* once the run has written the checkpoint, each counter on disk is the    *)
(* counter the run started with plus the artifacts of that kind whose item *)
(* the checkpoint no longer lists.                                         *)
(***************************************************************************)
C6_CheckpointAllOrNothing ==
  hist.writes > 0 =>
    \A k \in Kinds :
      BudgetOf(disk.checkpoint.budget, k) =
        BudgetOf(hist.startBudget, k)
          + Cardinality({i \in NewEntries :
                           /\ Entries[i].type = k
                           /\ Entries[i].url \notin PendingUrls(disk.checkpoint)})

(***************************************************************************)
(* C7. No checkpoint written to disk, per iteration, final or emergency,   *)
(* lists as pending a URL the run has already processed.                   *)
(***************************************************************************)
C7_PendingNotProcessed ==
  [][ hist'.writes = hist.writes + 1 =>
        PendingUrls(disk'.checkpoint) \cap memory'.visitedUrls = {} ]_vars

(***************************************************************************)
(* C8. A run ended by external terminations and restarted from the files   *)
(* on disk ends, when no fetch and no write fails, with the same sha256    *)
(* set in the manifest as the uninterrupted run.                           *)
(***************************************************************************)
C8_ResumeFidelity ==
  (pc = "exited" /\ exit.code = "0" /\ hist.faults = 0 /\ hist.prior \in {"none", "signal"})
    => {disk.manifest.entries[i].sha256 : i \in 1..Len(disk.manifest.entries)}
         = RefArtifacts(base_urls)

(***************************************************************************)
(* C9. A run started on an existing manifest has the URLs and the sha256   *)
(* values of the manifest in its seen sets, so no manifest entry is        *)
(* processed or registered again: no later entry repeats the URL or the    *)
(* sha256 of an entry loaded at startup.                                   *)
(***************************************************************************)
C9_SeenRebuilt ==
  run > 0 =>
    \A i \in 1..hist.startEntries :
      /\ Entries[i].sha256 \in memory.urlHashes
      /\ Entries[i].url \in memory.visitedUrls
      /\ \A j \in NewEntries :
           Entries[j].sha256 # Entries[i].sha256 /\ Entries[j].url # Entries[i].url

(***************************************************************************)
(* C10. A crawl ended by an external signal has stopped between two        *)
(* iterations, with the manifest flushed and the checkpoint written: the   *)
(* files on disk hold the entries, the queue and the counters of the run.  *)
(***************************************************************************)
C10_SignalStopsCleanly ==
  (exit.code = "signal" /\ exit.at \in {"select", "fetch", "process", "flush", "checkpoint"})
    => /\ exit.at = "select"
       /\ disk.manifest # Null
       /\ disk.manifest.entries = Entries
       /\ disk.checkpoint # Null
       /\ disk.checkpoint.pending = queue
       /\ disk.checkpoint.budget = Budget

(***************************************************************************)
(* C11. Killing the process at any point never leaves a partially written  *)
(* manifest.json, checkpoint.json or artifact file: every file on disk     *)
(* holds a complete version.                                               *)
(***************************************************************************)
C11_FilesWhole == disk.torn = {}

\* A wildcard pattern as the specification reads it: `*` is any sequence of
\* characters, every other character is itself, anchored, case-insensitive.
RECURSIVE GlobMatch(_, _)
GlobMatch(p, s) ==
  IF p = <<>> THEN s = <<>>
  ELSE IF Head(p) = "*"
       THEN GlobMatch(Tail(p), s) \/ (s # <<>> /\ GlobMatch(p, Tail(s)))
       ELSE s # <<>> /\ LowerChar(Head(s)) = LowerChar(Head(p)) /\ GlobMatch(Tail(p), Tail(s))

ScoreEqual(a, b) == a.n * b.d = b.n * a.d

\* The item a dequeue step has returned.
Returned == probe'.out[Len(probe'.out)]

(***************************************************************************)
(* C12. dequeue returns the pending items by descending score, items of    *)
(* equal score in the order they were enqueued: no item left in the queue  *)
(* has a higher score than the returned one, or the same score and an      *)
(* earlier enqueue.                                                        *)
(***************************************************************************)
C12_DequeueOrder ==
  [][ Len(probe'.out) = Len(probe.out) + 1 =>
        \A i \in 1..Len(queue') :
          /\ ~ScoreGreater(queue'[i].score, Returned.score)
          /\ ScoreEqual(queue'[i].score, Returned.score)
               => Returned.meta.seq < queue'[i].meta.seq ]_vars

C12_Witness ==
  /\ probe.fn = "scheduler"
  /\ Len(probe.out) = 3
  /\ probe.out[1].meta.seq = 3
  /\ probe.out[2].meta.seq = 1
  /\ probe.out[3].meta.seq = 2
  /\ ScoreGreater(probe.out[1].score, probe.out[2].score)
  /\ ScoreEqual(probe.out[2].score, probe.out[3].score)

\* The path of the URL contains a high-value marker.
HighValue(url) ==
  \E m \in {"/api", "/graphql", "/auth", "/admin", "/config", "/v1", "/v2"} :
    GlobMatch(<<"*">> \o Chars(m) \o <<"*">>, Pathname(url.path))

(***************************************************************************)
(* C13. Of two URLs pending at the same depth, one with a high-value       *)
(* marker in its path and one without, the one with the marker is          *)
(* dequeued first, whatever the order of their enqueues.                   *)
(***************************************************************************)
C13_HighValueFirst ==
  [][ Len(probe'.out) = Len(probe.out) + 1 =>
        \A i \in 1..Len(queue') :
          ~( /\ queue'[i].meta.depth = Returned.meta.depth
             /\ queue'[i].meta.priority = Returned.meta.priority
             /\ HighValue(queue'[i].url)
             /\ ~HighValue(Returned.url) ) ]_vars

(***************************************************************************)
(* C14. Every item in the queue has a score in [0,1], whatever its depth   *)
(* and its meta, a meta with a priority included.                          *)
(***************************************************************************)
C14_ScoreInUnitInterval ==
  \A i \in 1..Len(queue) :
    /\ queue[i].score.d > 0
    /\ queue[i].score.n >= 0
    /\ queue[i].score.n <= queue[i].score.d

HostInScope(url, config) ==
  \E d \in config.allowed_domains :
    HostLower(url.host) = HostLower(d) \/ HostLower(d) \in DotSuffixes(HostLower(url.host))

(***************************************************************************)
(* C15. A URL whose host is neither an allowed domain nor a subdomain of   *)
(* one is never fetched and never yields an artifact, whether it was a     *)
(* seed, restored from the checkpoint or discovered.                       *)
(***************************************************************************)
C15_ScopeSound ==
  /\ pc \in {"fetch", "process"} => HostInScope(nextItem.url, Config)
  /\ \A i \in 1..Len(Entries) : HostInScope(Entries[i].url, Config)
  /\ \A f \in DOMAIN disk.files : HostInScope(f[2], Config)

C15_Witness ==
  /\ Evil \in SeqToSet(base_urls)
  /\ Evil \in SeqToSet(hist.dequeued)
  /\ metrics.skipped > 0
  /\ Entries # <<>>

(***************************************************************************)
(* C16. The scope guard rejects every URL whose path matches a             *)
(* disallowed_paths pattern, `*` standing for any sequence of characters.  *)
(***************************************************************************)
C16_DisallowedRejected ==
  (probe.fn = "isUrlAllowed" /\ probe.returned /\ ParseUrl(probe.url) # Null
     /\ \E p \in probe.config.disallowed_paths :
          GlobMatch(Chars(p), Pathname(ParseUrl(probe.url).path)))
    => ~probe.result

(***************************************************************************)
(* C17. The scope guard rejects every URL whose scheme is not http or      *)
(* https, also when its host is an allowed domain.                         *)
(***************************************************************************)
C17_SchemeRejected ==
  (probe.fn = "isUrlAllowed" /\ probe.returned /\ probe.url.scheme \notin {"http", "https"})
    => ~probe.result

(***************************************************************************)
(* C18. normalizeUrl is idempotent: normalizing the result of a successful *)
(* normalization returns the same URL, under every configuration.          *)
(***************************************************************************)
C18_Idempotent ==
  (probe.fn = "normalizeUrl" /\ probe.returned /\ probe.result # Null)
    => probe.again = probe.result

C18_Witness ==
  /\ probe.fn = "normalizeUrl"
  /\ probe.returned
  /\ probe.url = FooTracked
  /\ probe.config = CanonConfig
  /\ probe.result # Null
  /\ probe.result # probe.url
  /\ probe.again = probe.result

(***************************************************************************)
(* C19. Two URLs that differ only in host case, fragment, tracking         *)
(* parameters, parameter order (also of the values of one name),           *)
(* duplicate slashes or dot segments have the same canonical URL.          *)
(***************************************************************************)
C19_Equivalent ==
  (probe.fn = "normalizeUrl" /\ probe.returned /\ probe.config = CanonConfig
     /\ <<probe.url, probe.other>> \in UrlPairs)
    => probe.result = probe.resultOther

(***************************************************************************)
(* C20. The canonical URL has no parameter whose name matches a noise      *)
(* pattern, no trailing slash and no fragment:                             *)
(* https://A.test/Foo/?b=2&utm_source=x&a=1#frag becomes                   *)
(* https://a.test/Foo?a=1&b=2.                                             *)
(***************************************************************************)
C20_NoiseRemoved ==
  (probe.fn = "normalizeUrl" /\ probe.returned /\ probe.result # Null
     /\ probe.config.normalize_query # Null /\ ~probe.config.follow_redirects)
    => /\ \A i \in 1..Len(probe.result.query) :
            ~\E p \in probe.config.normalize_query.drop_params :
               GlobMatch(Chars(p), Chars(probe.result.query[i][1]))
       /\ probe.result.hash = ""
       /\ probe.result.path = <<>> \/ probe.result.path[Len(probe.result.path)] # ""
       /\ (probe.url = FooTracked /\ probe.config = CanonConfig)
            => probe.result = Mk("a.test", <<"Foo">>, <<Q("a", "1"), Q("b", "2")>>, "")

(***************************************************************************)
(* Ordering of discovery, registration and selection.                      *)
(***************************************************************************)

\* C21: a URL that handleProcessingResult pushed on the queue is at no time
\* the item of an iteration unless the artifact of the page it was found in
\* has been registered before, in this run or in a run before it.
C21_RegisteredBeforeDequeue ==
  nextItem # Null =>
    \A p \in hist.discovered : p[1] = nextItem.url => p[2] \in hist.registered

\* C21: /store/item/1, found in the root page, is the item being fetched.
C21_Witness ==
  /\ pc = "fetch"
  /\ nextItem.url = Item1
  /\ <<Item1, Root>> \in hist.discovered

(***************************************************************************)
(* Terminal events and errors inside the loop.                             *)
(***************************************************************************)

\* C22: when the process has ended by itself, with exit code 0 (queue
\* exhausted, stop condition) or 1 (an error that left the loop), manifest.json
\* holds the entries of the manifest in memory; after exit code 0
\* checkpoint.json is written too.
C22_TerminalFlush ==
  (pc = "exited" /\ exit.code \in {"0", "1"}) =>
    /\ disk.manifest # Null
    /\ disk.manifest.entries = manifest.entries
    /\ exit.code = "0" => disk.checkpoint # Null

\* C24: no error of an iteration leaves the crawl loop: main's catch is
\* never entered once the loop runs.
C24_NoErrorLeavesLoop == pc # "fatal"

\* C25: an iteration that ends in the catch of the fetch or of the processor
\* leaves the content hashes, the SimHash registry, the manifest and the budget
\* counters as they were when the item was dequeued.
C25_FailureRestores ==
  [][(pc \in {"fetch", "process"} /\ pc' = "checkpoint") =>
       /\ memory'.urlHashes = memory.urlHashes
       /\ memory'.htmlSimhashes = memory.htmlSimhashes
       /\ manifest' = manifest
       /\ checkpoint'.budget = checkpoint.budget]_vars

(***************************************************************************)
(* The periodic flush.                                                     *)
(***************************************************************************)

\* C23: the loop dequeues no item while a flush is due, that is while 50
\* results were handled or 60 s have passed since the last flush.
C23_FlushBeforeDequeue ==
  [][(pc = "select" /\ pc' \in {"fetch", "checkpoint"}) => ~FlushDue(St)]_vars

(***************************************************************************)
(* The crawl of a site of HTML pages: /docs links to four pages, more than *)
(* pages_max and than pages_max raised by one.                             *)
(***************************************************************************)
InitPages == InitWith({<<Docs>>})

SpecPages == InitPages /\ [][Next]_vars

\* The HTML pages the run has saved under pages/.
SavedPages == {f \in DOMAIN disk.files : f[1] = "html"}

\* C27: a crawl of /docs in which no fetch and no write failed, no timer ran
\* out and nothing ended the process, when it has ended, has saved exactly
\* pages_max pages, has written manifest.json with these pages and has
\* written a checkpoint whose pending list is not empty.
C27_HaltsAtPagesMax ==
  (pc = "exited" /\ hist.events = 0) =>
    /\ Cardinality(SavedPages) = pages_max
    /\ disk.manifest # Null
    /\ Cardinality({i \in 1..Len(disk.manifest.entries) :
                      disk.manifest.entries[i].type = "html"}) = pages_max
    /\ disk.checkpoint # Null
    /\ disk.checkpoint.pending # <<>>

\* C27: the first run of the crawl of /docs has ended with exit code 0.
C27_Witness ==
  /\ pc = "exited" /\ exit.code = "0" /\ run = 0 /\ hist.events = 0
  /\ base_urls = <<Docs>>
  /\ Cardinality(SavedPages) = pages_max

(***************************************************************************)
(* Stop conditions.                                                        *)
(***************************************************************************)

\* The error rate has reached error_rate_max: every item the run has dequeued
\* so far failed, which is an error rate of 1, the largest value a rate takes.
ErrorRateReached(S) ==
  S.metrics.errors > 0 /\ S.metrics.visited = 0 /\ S.metrics.skipped = 0

\* C26: at the top of the loop shouldStop is true exactly when a budget of
\* pages, js or api is used up or the error rate has reached its maximum.
C26_StopIffAnyLimit ==
  pc = "select" =>
    (shouldStop(St) <=>
       \/ checkpoint.budget.pages >= pages_max
       \/ checkpoint.budget.js >= js_max
       \/ checkpoint.budget.api >= api_max
       \/ ErrorRateReached(St))

\* C28: the endpoint list extracted from the JavaScript response that is being
\* processed contains the string literal of every call of fetch, axios.<method>
\* and graphql in its body, the relative ones and the absolute ones.
C28_AllLiteralsListed ==
  (pc = "process" /\ routeResponse(response) = "js") =>
    \A i \in 1..Len(JsLiterals(response.body)) :
      \E j \in 1..Len(extractApiCandidatesFromJs(response.body)) :
        extractApiCandidatesFromJs(response.body)[j] = JsLiterals(response.body)[i]

\* The keys whose values the specification requires to be redacted.
SensitiveKeys ==
  {"token", "secret", "password", "authorization", "api_key", "email", "phone", "ssn",
   "session"}

\* No run of letters and digits of the text is REDACT_MIN long or longer.
NoLongRun(text) == \A i \in 1..Len(text) : text[i].len < REDACT_MIN

\* At every depth of the document: the value of a sensitive key is the string
\* "<redacted>", and no string has a long run.
RECURSIVE FullyRedacted(_)
FullyRedacted(value) ==
  CASE value.t \in {"str", "text"} -> NoLongRun(value.s)
    [] value.t = "arr" -> \A i \in 1..Len(value.items) : FullyRedacted(value.items[i])
    [] value.t = "obj" ->
         \A i \in 1..Len(value.members) :
           /\ value.members[i].key \in SensitiveKeys => value.members[i].val = Str(<<Mark>>)
           /\ FullyRedacted(value.members[i].val)
    [] OTHER -> TRUE

\* No string of the document, at any depth, has a long run.
RECURSIVE NoLongRunAnywhere(_)
NoLongRunAnywhere(value) ==
  CASE value.t \in {"str", "text"} -> NoLongRun(value.s)
    [] value.t = "arr" -> \A i \in 1..Len(value.items) : NoLongRunAnywhere(value.items[i])
    [] value.t = "obj" ->
         \A i \in 1..Len(value.members) : NoLongRunAnywhere(value.members[i].val)
    [] OTHER -> TRUE

\* The files written under api/.
ApiFiles == {f \in DOMAIN disk.files : f[1] = "api"}

\* C29: in every file under api/, at every depth, the value of a key among
\* token, secret, password, authorization, api_key, email, phone, ssn and
\* session is "<redacted>", and no string value has a run of 24 or more
\* letters and digits.
C29_SensitiveKeysRedacted ==
  \A f \in ApiFiles : FullyRedacted(disk.files[f])

\* The manifest records of API responses.
ApiRecords == {i \in 1..Len(manifest.entries) : manifest.entries[i].type = "api"}

\* C30: every manifest record of an API response carries a field redacted
\* that is true exactly when the stored document differs from the one
\* received, its sha256 is the hash of the body received, and the file under
\* api/ holds the redacted document.
C30_RedactedFlag ==
  \A i \in ApiRecords :
    LET e == manifest.entries[i]
        bodyText == Site(e.url).body
    IN /\ "redacted" \in DOMAIN e
       /\ e.redacted = (Redacted(bodyText) # Document(bodyText))
       /\ e.sha256 = Sha256(bodyText)
       /\ <<"api", e.url>> \in DOMAIN disk.files => disk.files[<<"api", e.url>>] = Redacted(bodyText)

\* The process starts again and reads a checkpoint.json that parses.
RestartsFromCheckpoint ==
  /\ run' = run + 1
  /\ disk.checkpoint # Null
  /\ <<"checkpoint.json">> \notin disk.torn

\* C31: the scheduler built from the pending list of a checkpoint holds the
\* items of that list, with the same URL, meta and score each, in the same
\* order, and dequeues them in the same order.
C31_RestorePreservesQueue ==
  [][RestartsFromCheckpoint =>
       /\ queue' = disk.checkpoint.pending
       /\ SortQueue(queue') = SortQueue(disk.checkpoint.pending)]_vars

HtmlArtifactsOfRun ==
  {i \in (hist.startEntries + 1)..Len(manifest.entries) : manifest.entries[i].type = "html"}

\* C33: at the head of the loop, no two fingerprints of the SimHash registry
\* are more similar than html_similarity_drop, every fingerprint belongs to a
\* page that was saved, and the registry has as many fingerprints as HTML
\* artifacts were registered in the run.
C33_RegistryMatchesSavedPages ==
  pc = "select" =>
    /\ \A i, j \in 1..Len(memory.htmlSimhashes) :
          i # j => ~SimilarAbove(memory.htmlSimhashes[i].simhash, memory.htmlSimhashes[j].simhash)
    /\ \A i \in 1..Len(memory.htmlSimhashes) :
          \E k \in HtmlArtifactsOfRun : manifest.entries[k].url = memory.htmlSimhashes[i].url
    /\ Len(memory.htmlSimhashes) = Cardinality(HtmlArtifactsOfRun)

(***************************************************************************)
(* The crawl of a chain: the page /deep links a script, whose call names   *)
(* a page, which links a script, whose call names a page: one URL at each  *)
(* depth from 0 to 4, deeper than depth_max and than depth_max raised by   *)
(* one.                                                                    *)
(***************************************************************************)
InitDeep == InitWith({<<Deep0>>})

SpecDeep == InitDeep /\ [][Next]_vars

\* Every item of the queue has a depth of depth_max at most.
QueueWithinDepth(q) == \A i \in 1..Len(q) : q[i].meta.depth <= depth_max

\* C34: in every step, before and after it, every item of the queue and the
\* item that was dequeued have a depth of depth_max at most, the items
\* restored at a restart included; and the URLs that the processing of an
\* item of depth d puts on the queue have depth d + 1.
C34_DepthBounded ==
  [][/\ QueueWithinDepth(queue) /\ QueueWithinDepth(queue')
     /\ nextItem' # Null => nextItem'.meta.depth <= depth_max
     /\ pc = "process" =>
           \A i \in (Len(queue) + 1)..Len(queue') :
             queue'[i].meta.depth = nextItem.meta.depth + 1]_vars

\* C34: the item at depth depth_max of the chain was processed and its
\* artifact registered, and the URL it names, one level deeper, was not
\* enqueued.
C34_Witness ==
  /\ pc = "select"
  /\ nextItem # Null
  /\ nextItem.meta.depth = depth_max
  /\ nextItem.url \in {DeepP2, DeepS3}
  /\ nextItem.url \in hist.registered
  /\ DeepP4 \notin memory.enqueuedUrls
  /\ nextItem.url = DeepP2 => DeepS3 \notin memory.enqueuedUrls

\* The response being processed is a duplicate for its processor: its hash
\* is in urlHashes, or it is a page with a fingerprint too similar to a
\* stored one.
ClassifiedDuplicate ==
  /\ pc = "process"
  /\ routeResponse(response) \in {"html", "js", "api"}
  /\ response.body # ""
  /\ \/ Sha256(response.body) \in memory.urlHashes
     \/ /\ routeResponse(response) = "html"
        /\ \E i \in 1..Len(memory.htmlSimhashes) :
             SimilarAbove(computeSimHash(response.body), memory.htmlSimhashes[i].simhash)

\* C35: the processing of a response classified as a duplicate adds exactly
\* one to metrics.duplicates and exactly one to manifest.stats.duplicates.
C35_DuplicateCountedOnce ==
  [][(ClassifiedDuplicate /\ pc' # "process") =>
       /\ metrics'.duplicates = metrics.duplicates + 1
       /\ manifest'.stats.duplicates = manifest.stats.duplicates + 1]_vars

\* The number of manifest entries of a type.
EntriesOfType(t) ==
  Cardinality({i \in 1..Len(manifest.entries) : manifest.entries[i].type = t})

\* C36: in the first run, started without manifest.json and checkpoint.json,
\* at the head of the loop the counters pages, js and api of manifest.stats
\* equal those of checkpoint.budget, and each equals the number of manifest
\* entries of its type.
C36_StatsEqualBudget ==
  (pc = "select" /\ run = 0) =>
    /\ manifest.stats.pages = checkpoint.budget.pages
    /\ manifest.stats.js = checkpoint.budget.js
    /\ manifest.stats.api = checkpoint.budget.api
    /\ manifest.stats.pages = EntriesOfType("html")
    /\ manifest.stats.js = EntriesOfType("js")
    /\ manifest.stats.api = EntriesOfType("api")

\* C36: the first run is at the head of the loop with a page, a script and an
\* API response registered.
C36_Witness ==
  /\ pc = "select" /\ run = 0
  /\ manifest.stats.pages >= 1 /\ manifest.stats.js >= 1 /\ manifest.stats.api >= 1

\* C37: at the head of the loop, the sum of metrics.visited, metrics.skipped
\* and metrics.errors is the number of items dequeued in this run.
C37_CountersSumToDequeued ==
  pc = "select" =>
    metrics.visited + metrics.skipped + metrics.errors = Len(hist.dequeued)

\* C37: the loop is at its head after an iteration that skipped its item and
\* an iteration that failed.
C37_Witness ==
  /\ pc = "select"
  /\ metrics.skipped = 1 /\ metrics.errors = 1 /\ metrics.visited = 0
  /\ Len(hist.dequeued) = 2

\* C38: a URL whose fetch or processing has failed, in this run or in an
\* earlier one, is not on the queue, is not in the pending list of the
\* checkpoint the loop has just written, and is not fetched again.
C38_FailedNotRetried ==
  /\ \A i \in 1..Len(queue) : queue[i].url \notin hist.failed
  /\ (pc = "select" /\ hist.lastWrite = "iteration") =>
        \A i \in 1..Len(disk.checkpoint.pending) :
          disk.checkpoint.pending[i].url \notin hist.failed
  /\ pc = "fetch" => nextItem.url \notin hist.failed

\* manifest.json exists and parses.
ManifestReadable == disk.manifest # Null /\ <<"manifest.json">> \notin disk.torn

\* C39: when the process starts again and reads a checkpoint whose pending
\* list is empty, its queue and its set of enqueued URLs are those of the
\* forced enqueue of the seeds on a fresh state, its budget counters are
\* those of the checkpoint and its manifest entries those of manifest.json;
\* after a run that ended with exit code 0 these are the counters and the
\* entries that run had in memory.
C39_EmptyPendingReseeds ==
  [][(RestartsFromCheckpoint /\ disk.checkpoint.pending = <<>>) =>
       /\ queue' = EnqueueSeeds(FreshState(EmptyDisk), base_urls).queue
       /\ memory'.enqueuedUrls = EnqueueSeeds(FreshState(EmptyDisk), base_urls).memory.enqueuedUrls
       /\ checkpoint'.budget = disk.checkpoint.budget
       /\ ManifestReadable => manifest'.entries = disk.manifest.entries
       /\ exit.code = "0" =>
             /\ checkpoint'.budget = checkpoint.budget
             /\ manifest'.entries = manifest.entries]_vars

\* C39: a run has just started from a checkpoint with an empty pending list
\* and a budget that counts artifacts: the seeds are on its queue and the
\* entries of the previous run in its manifest.
C39_Witness ==
  /\ run >= 1 /\ pc = "select" /\ hist.dequeued = <<>>
  /\ disk.checkpoint # Null
  /\ checkpoint = disk.checkpoint
  /\ checkpoint.pending = <<>>
  /\ checkpoint.budget.pages + checkpoint.budget.js + checkpoint.budget.api >= 1
  /\ manifest.entries # <<>>
  /\ queue # <<>>

(***************************************************************************)
(* The crawl when every call of the loop returns: a step of main and       *)
(* startCrawl that can be taken is taken.  A termination from outside and  *)
(* a restart are not steps of the loop.  For Dequeue and Process the       *)
(* weak fairness is written out with the condition under which the step    *)
(* can be taken: WF_vars(A) is []<>~ENABLED <<A>>_vars \/ []<><<A>>_vars.   *)
(***************************************************************************)
\* Dequeue can be taken.
DequeueEnabled == pc = "select" /\ ~shouldStop(St) /\ queue # <<>>

\* Process can be taken: the processor returns when no write rejects.
ProcessEnabled == pc = "process"

LoopSteps ==
  \/ LoopEnd
  \/ FetchOk
  \/ Flush
  \/ Checkpoint
  \/ FinalFlush
  \/ FinalCheckpoint
  \/ Fatal

\* The crawls checked for termination: a site with links among its pages,
\* and a seed list with a seed out of scope.
InitLive == InitWith({<<Root>>, <<Evil, Item1>>})

SpecLive ==
  /\ InitLive /\ [][Next]_vars
  /\ WF_vars(LoopSteps)
  /\ ([]<>~DequeueEnabled \/ []<><<Dequeue>>_vars)
  /\ ([]<>~ProcessEnabled \/ []<><<Process>>_vars)

\* The URLs that the processing of an item puts on the queue were never
\* enqueued before in this run, and no two of them are equal.
EnqueuedOnce ==
  pc = "process" =>
    /\ \A i \in (Len(queue) + 1)..Len(queue') : queue'[i].url \notin memory.enqueuedUrls
    /\ \A i, j \in (Len(queue) + 1)..Len(queue') : i # j => queue'[i].url # queue'[j].url

\* C40: no URL enters the queue twice through the enqueue of a discovered
\* URL; and from the head of the loop the run always arrives at finalize,
\* with the queue empty or a stop condition true, unless a write of the
\* manifest or of the checkpoint rejects or the process is terminated.
C40_LoopReachesFinalize ==
  /\ [][EnqueuedOnce]_vars
  /\ [](pc = "finalize" => (shouldStop(St) \/ queue = <<>>))
  /\ (pc = "select") ~> (\/ pc = "finalize"
                         \/ pc = "fatal"
                         \/ pc = "exited" /\ exit.code = "signal")

\* C40: the first run has left the loop with its queue drained and no stop
\* condition true, after iterations that enqueued discovered URLs.
C40_Witness ==
  /\ pc = "finalize" /\ run = 0
  /\ queue = <<>> /\ ~shouldStop(St)
  /\ Len(hist.dequeued) >= 3
  /\ hist.discovered # {}

====
